---------------------------- MODULE Spec2Model ----------------------------
(***************************************************************************)
(* EEG sonification pipeline (clairea03/eeg-sonify): the signal generator  *)
(* (modules/eeg_simulator.py), the analyzer (modules/signal_processor.py)  *)
(* and the sonifier (modules/sonifier.py).                                 *)
(*                                                                         *)
(* Every public operation is a call: a caller that is idle invokes one     *)
(* operation with its inputs (Call actions), the operation runs to its     *)
(* end, returning a value or raising an exception, and the caller takes    *)
(* the outcome (Return).                                                   *)
(*                                                                         *)
(* Numbers.  Sample values are exact rationals kept as scaled integers;    *)
(* floating-point rounding is not modelled.  A float that numpy computes   *)
(* as 0/0 is NaN and is kept as a flag.  Frequencies of band edges are     *)
(* kept in half-Hz ("2" suffix: low2 = 2*low), so 0.5 Hz is 1 and the      *)
(* Nyquist frequency sampling_rate/2 is sampling_rate in the same unit.    *)
(* Durations are kept in tenths of a second for the generator and in       *)
(* halves of a second for the sonifier.                                    *)
(*                                                                         *)
(* Library behaviour (numpy / scipy before 1.13, where signal.gaussian     *)
(* still exists) is modelled at the call sites that use it.                *)
(*                                                                         *)
(* Random draws come from numpy's process-wide generator (rng): which      *)
(* onsets np.random.choice returns is an input of the call, and every      *)
(* draw advances the generator.  SeedSpec is a caller that seeds that      *)
(* generator and compares successive generate calls.  ConfigSpec is the    *)
(* configuration module (neural_sonify/config.py) with the dictionaries    *)
(* its instances share.  AppSpec is the Streamlit script (app.py): every   *)
(* interaction with a widget runs the script again from its first line.    *)
(***************************************************************************)
EXTENDS Integers, Sequences, FiniteSets, TLC

VARIABLES
    op,     \* the operation in progress / just finished, "idle" when none
    args,   \* its inputs
    ret,    \* its outcome: a value returned or an exception raised
    rng,    \* the process-wide random generator np.random
    drawn,  \* the generator state at the first draw of the running call
    last,   \* the last generate call that returned, when calls are recorded
    heap,   \* the dictionaries of the default configuration (module level)
    tops,   \* the top-level dictionary of each Configuration instance
    disk,   \* the configuration file: its document and what was saved
    session \* the app's session: its sliders and st.session_state

vars == <<op, args, ret, rng, drawn, last, heap, tops, disk, session>>

-----------------------------------------------------------------------------
(* Bounds of the model *)

MaxDurTenths == 12      \* generator durations: -0.1 s .. 1.2 s
MaxLen == 3             \* longest explicit sample sequence
MaxVal == 2             \* sample values 0..MaxVal
MaxDurHalves == 4       \* tone_mapping durations: -0.5 s .. 2.0 s
MaxEntries == 2         \* entries of an arbitrary band mapping
MaxRngDraws == 4        \* draws the random generator serves after a seeding
MaxSeed == 2            \* seeds 1..MaxSeed offered to np.random.seed
MaxSampleQuarters == 6  \* audio samples saved: -1.5 .. 1.5 in steps of 1/4
MaxSaved == 2           \* longest audio buffer saved

-----------------------------------------------------------------------------
(* Python / numpy arithmetic on rationals num/den, den > 0 *)

\* math.floor(num/den)
Floor(num, den) == num \div den

\* math.ceil(num/den)
Ceil(num, den) == -((-num) \div den)

\* int(num/den): truncation toward zero
Trunc(num, den) == IF num >= 0 THEN num \div den ELSE -((-num) \div den)

\* round(num/den): Python 3 rounds halves to the even neighbour
Round(num, den) ==
    LET f == Floor(num, den)
        r2 == 2 * (num - f * den)
    IN  IF r2 < den THEN f
        ELSE IF r2 > den THEN f + 1
        ELSE IF f % 2 = 0 THEN f ELSE f + 1

Max(a, b) == IF a >= b THEN a ELSE b

\* outcomes of a call
Returned(v) == [kind |-> "returned", value |-> v]
Raised(exc, at) == [kind |-> "raised", exc |-> exc, at |-> at]
NoArgs == [none |-> TRUE]
NoRet == [kind |-> "none"]

-----------------------------------------------------------------------------
(* The band-pass primitive: scipy.signal.butter + scipy.signal.filtfilt *)

\* filtfilt's default padlen for the order-4 band-pass (9 coefficients):
\* 3 * max(len(a), len(b))
PadLen == 27

\* scipy.signal.butter(4, [low, high], btype='band') without the check that
\* Wn[0] < Wn[1]
butter_NoOrderCheck(low2, high2, rate) ==
    IF low2 <= 0 \/ high2 <= 0 THEN "ValueError"
    ELSE IF low2 >= rate \/ high2 >= rate THEN "ValueError"
    ELSE "ok"

\* scipy.signal.butter(4, [low, high], btype='band') on the normalized cutoffs
\* low = low2/rate, high = high2/rate (rate > 0): iirfilter raises ValueError
\* unless 0 < Wn, Wn[0] < Wn[1] and Wn < 1
butter(low2, high2, rate) ==
    IF low2 <= 0 \/ high2 <= 0 THEN "ValueError"
    ELSE IF ~(low2 < high2) THEN "ValueError"
    ELSE IF low2 >= rate \/ high2 >= rate THEN "ValueError"
    ELSE "ok"

\* scipy.signal.filtfilt(b, a, x) on n samples: raises ValueError when
\* n <= padlen, and returns n samples otherwise
filtfilt(n) == IF n <= PadLen THEN "ValueError" ELSE "ok"

\* SignalProcessor.apply_bandpass_filter on a signal of n samples.
\* nyquist = 0.5 * sampling_rate; low_freq / nyquist divides by 0.0 when the
\* rate is 0.
apply_bandpass_filter(n, low2, high2, rate) ==
    IF rate = 0 THEN Raised("ZeroDivisionError", "nyquist")
    ELSE IF butter(low2, high2, rate) # "ok"
         THEN Raised(butter(low2, high2, rate), "butter")
    ELSE IF filtfilt(n) # "ok" THEN Raised(filtfilt(n), "filtfilt")
    ELSE Returned([len |-> n])

\* len(self.time) = len(np.arange(0, duration, 1/sampling_rate)) for
\* duration = durTenths/10 and rate > 0
TimeLen(rate, durTenths) == Max(0, Ceil(rate * durTenths, 10))

\* EEGSimulator.generate_band_limited_noise on a simulator whose time array
\* has n samples: the noise is drawn, then filtered as apply_bandpass_filter.
\* (The amplitude only scales the samples.)
generate_band_limited_noise(n, low2, high2, rate) ==
    IF butter(low2, high2, rate) # "ok"
    THEN Raised(butter(low2, high2, rate), "butter")
    ELSE IF filtfilt(n) # "ok" THEN Raised(filtfilt(n), "filtfilt")
    ELSE Returned([len |-> n])

-----------------------------------------------------------------------------
(* The signal generator: EEGSimulator *)

BrainStates == {"Awake", "N1", "N3", "REM", "Seizure"}

\* the band edges (half-Hz) each state passes to generate_band_limited_noise,
\* in call order
StateBands(state) ==
    CASE state = "Awake"   -> <<<<1, 8>>, <<8, 16>>, <<16, 26>>, <<26, 60>>>>
      [] state = "N1"      -> <<<<8, 16>>, <<16, 26>>>>
      [] state = "N3"      -> <<<<1, 8>>, <<8, 16>>>>
      [] state = "REM"     -> <<<<8, 16>>, <<16, 26>>, <<26, 60>>>>
      [] state = "Seizure" -> <<<<1, 60>>>>

\* the outcome of the band noises of a state: the first exception in call
\* order, or NoRet when every band is generated
BandNoises(state, n, rate) ==
    LET bs == StateBands(state)
        r(i) == generate_band_limited_noise(n, bs[i][1], bs[i][2], rate)
        bad == {i \in 1..Len(bs) : r(i).kind = "raised"}
    IN  IF bad = {} THEN NoRet
        ELSE r(CHOOSE i \in bad : \A j \in bad : i <= j)

\* np.random.choice(pop, size, replace=False): ValueError when pop <= 0 or
\* when the sample is larger than the population
random_choice(pop, size) ==
    IF pop <= 0 \/ size > pop THEN "ValueError" ELSE "ok"

\* width of a vertex wave (N1) and of a sawtooth burst (REM), and how many
VertexWidth == 50
VertexCount == 5
SawtoothWidth == 100
SawtoothCount == 8

generate_normal_eeg(n, rate) ==
    IF BandNoises("Awake", n, rate) # NoRet THEN BandNoises("Awake", n, rate)
    ELSE Returned([len |-> n])

\* times is what np.random.choice draws when it does not raise: a set of
\* VertexCount distinct onsets in 0..(n - VertexWidth - 1)
generate_sleep_stage_n1(n, rate, times) ==
    IF BandNoises("N1", n, rate) # NoRet THEN BandNoises("N1", n, rate)
    ELSE IF random_choice(n - VertexWidth, VertexCount) # "ok"
         THEN Raised("ValueError", "random.choice")
    ELSE Returned([len |-> n, vertex_wave_times |-> times])

generate_sleep_stage_n3(n, rate) ==
    IF BandNoises("N3", n, rate) # NoRet THEN BandNoises("N3", n, rate)
    ELSE Returned([len |-> n])

\* times is what np.random.choice draws when it does not raise: a set of
\* SawtoothCount distinct onsets in 0..(n - SawtoothWidth - 1)
generate_rem_sleep(n, rate, times) ==
    IF BandNoises("REM", n, rate) # NoRet THEN BandNoises("REM", n, rate)
    ELSE IF random_choice(n - SawtoothWidth, SawtoothCount) # "ok"
         THEN Raised("ValueError", "random.choice")
    ELSE Returned([len |-> n, sawtooth_times |-> times])

\* length of the three concatenated envelope segments:
\* int(n/5) + int(n/5*3) + int(n/5)
EnvelopeRawLen(n) == Trunc(n, 5) + Trunc(3 * n, 5) + Trunc(n, 5)

\* np.linspace(start, stop, k) with the end point included, as rationals
\* num/den: k = 1 gives [start]; otherwise sample i (from 1) is
\* start + (i-1)*(stop-start)/(k-1), the last being stop exactly
linspace_NoEndpoint(start, stop, k) ==
    [i \in 1..k |-> [num |-> start * k + (i - 1) * (stop - start),
                     den |-> k]]

linspace(start, stop, k) ==
    [i \in 1..k |-> IF k = 1 THEN [num |-> start, den |-> 1]
                    ELSE [num |-> start * (k - 1) + (i - 1) * (stop - start),
                          den |-> k - 1]]

\* the three segments concatenated, without the adjustment to n samples
amplitude_envelope_NotAdjusted(n) ==
    linspace(0, 1, Trunc(n, 5))
    \o [i \in 1..Trunc(3 * n, 5) |-> [num |-> 1, den |-> 1]]
    \o linspace(1, 0, Trunc(n, 5))

\* the amplitude envelope of a seizure over n samples: onset ramp, plateau
\* of ones, termination ramp; zero-padded to n samples when shorter and cut
\* to n samples when longer.  int(n/5*3) is computed in floating point and
\* equals floor(3n/5): n/5 is exact when 3n/5 is an integer, and otherwise
\* 3n/5 is at least 0.2 away from an integer.
amplitude_envelope(n) ==
    LET concatenated == linspace(0, 1, Trunc(n, 5))
                        \o [i \in 1..Trunc(3 * n, 5) |-> [num |-> 1, den |-> 1]]
                        \o linspace(1, 0, Trunc(n, 5))
    IN  IF Len(concatenated) < n
        THEN concatenated
             \o [i \in 1..(n - Len(concatenated)) |-> [num |-> 0, den |-> 1]]
        ELSE IF Len(concatenated) > n THEN SubSeq(concatenated, 1, n)
        ELSE concatenated

\* the centers of the spikes the 3 Hz loop places: spike i has
\* center = int(i/3 * rate), width = rate // 20, and is skipped when
\* center - width < 0 or center + width >= n; nothing is added when width = 0
SpikeFreq == 3
PlacedSpikes_NoBoundsCheck(n, rate, durTenths) ==
    {i \in 0..(Trunc(durTenths * SpikeFreq, 10) - 1) : Floor(rate, 20) > 0}

PlacedSpikes(n, rate, durTenths) ==
    LET w == Floor(rate, 20)
    IN  {i \in 0..(Trunc(durTenths * SpikeFreq, 10) - 1) :
            /\ ~(Trunc(i * rate, SpikeFreq) - w < 0
                 \/ Trunc(i * rate, SpikeFreq) + w >= n)
            /\ w > 0}

\* the slices seizure_component[center-width : center+width] the loop adds
\* a spike to, as <<first index, index after the last>>
SpikeWindows(n, rate, durTenths) ==
    {<<Trunc(i * rate, SpikeFreq) - Floor(rate, 20),
       Trunc(i * rate, SpikeFreq) + Floor(rate, 20)>> :
        i \in PlacedSpikes(n, rate, durTenths)}

generate_seizure_activity(n, rate, durTenths) ==
    IF BandNoises("Seizure", n, rate) # NoRet
    THEN BandNoises("Seizure", n, rate)
    ELSE Returned([len |-> n,
                   envelopeRaw |-> EnvelopeRawLen(n),
                   amplitude_envelope |-> amplitude_envelope(n),
                   spikes |-> PlacedSpikes(n, rate, durTenths),
                   windows |-> SpikeWindows(n, rate, durTenths)])

\* app.py: EEGSimulator(sampling_rate, duration) followed by the generator of
\* the selected brain state.  The constructor computes 1/sampling_rate.
generate(state, rate, durTenths, times) ==
    IF rate = 0 THEN Raised("ZeroDivisionError", "__init__")
    ELSE LET n == TimeLen(rate, durTenths)
         IN  CASE state = "Awake"   -> generate_normal_eeg(n, rate)
               [] state = "N1"      -> generate_sleep_stage_n1(n, rate, times)
               [] state = "N3"      -> generate_sleep_stage_n3(n, rate)
               [] state = "REM"     -> generate_rem_sleep(n, rate, times)
               [] state = "Seizure" ->
                      generate_seizure_activity(n, rate, durTenths)

\* how many times a state's generator draws from np.random: each
\* generate_band_limited_noise that is entered draws its white noise (line
\* 27) before the filter is designed, so a failing band has drawn too; a
\* draw of zero samples takes nothing from the generator.  N1 and REM draw
\* once more for the onsets when np.random.choice does not raise.
NoiseDraws(state, n, rate) ==
    LET bs == StateBands(state)
        bad == {i \in 1..Len(bs) :
                   generate_band_limited_noise(n, bs[i][1], bs[i][2],
                                               rate).kind = "raised"}
        entered == IF bad = {} THEN Len(bs)
                   ELSE CHOOSE i \in bad : \A j \in bad : i <= j
    IN  IF n = 0 THEN 0 ELSE entered

GenerateDraws(state, rate, durTenths) ==
    IF rate = 0 THEN 0
    ELSE LET n == TimeLen(rate, durTenths)
         IN  NoiseDraws(state, n, rate)
             + (IF /\ BandNoises(state, n, rate) = NoRet
                   /\ \/ state = "N1"
                         /\ random_choice(n - VertexWidth, VertexCount) = "ok"
                      \/ state = "REM"
                         /\ random_choice(n - SawtoothWidth,
                                          SawtoothCount) = "ok"
                THEN 1 ELSE 0)

-----------------------------------------------------------------------------
(* The analyzer: SignalProcessor *)

\* the canonical bands, in the order of the dict literal of
\* extract_frequency_bands, with their edges in half-Hz
BandNames == <<"delta", "theta", "alpha", "beta", "gamma">>
BandEdges == <<<<1, 8>>, <<8, 16>>, <<16, 26>>, <<26, 60>>, <<60, 200>>>>

\* SignalProcessor.extract_frequency_bands on a signal of n samples: the dict
\* literal filters the five bands in order, and the first exception ends the
\* call; the value is the mapping as a sequence of entries in insertion order
extract_frequency_bands(n, rate) ==
    LET r(i) == apply_bandpass_filter(n, BandEdges[i][1], BandEdges[i][2], rate)
        bad == {i \in 1..5 : r(i).kind = "raised"}
    IN  IF bad # {} THEN r(CHOOSE i \in bad : \A j \in bad : i <= j)
        ELSE Returned([i \in 1..5 |->
                          [name |-> BandNames[i], len |-> r(i).value.len]])

\* floats that may be NaN or +inf: the finite ones are num/den, den > 0
NaN == [tag |-> "nan", num |-> 0, den |-> 1]
Inf == [tag |-> "inf", num |-> 0, den |-> 1]
Num(n, d) == [tag |-> "num", num |-> n, den |-> d]

\* numpy float64 division a / b of non-negative floats: a zero divisor gives
\* NaN (0/0) or inf (x/0) and a warning, never an exception
FDiv(a, b) ==
    IF a.tag = "nan" \/ b.tag = "nan" THEN NaN
    ELSE IF b.tag = "inf" THEN (IF a.tag = "inf" THEN NaN ELSE Num(0, 1))
    ELSE IF b.num = 0 THEN (IF a.tag = "num" /\ a.num = 0 THEN NaN ELSE Inf)
    ELSE IF a.tag = "inf" THEN Inf
    ELSE Num(a.num * b.den, a.den * b.num)

RECURSIVE SumSeq(_)
SumSeq(x) == IF x = <<>> THEN 0 ELSE Head(x) + SumSeq(Tail(x))

\* np.var(x): the mean of the squared deviations, NaN for an empty array
np_var(x) ==
    IF Len(x) = 0 THEN NaN
    ELSE Num(Len(x) * SumSeq([i \in 1..Len(x) |-> x[i] * x[i]])
                - SumSeq(x) * SumSeq(x),
             Len(x) * Len(x))

\* np.diff(x, k): k times a[1:] - a[:-1]
RECURSIVE np_diff(_, _)
np_diff(x, k) ==
    IF k = 0 THEN x
    ELSE LET d == np_diff(x, k - 1)
         IN  IF Len(d) <= 1 THEN <<>>
             ELSE [i \in 1..(Len(d) - 1) |-> d[i + 1] - d[i]]

\* np.pad(x, (0, k), 'constant'): k trailing zeros
np_pad(x, k) == x \o [i \in 1..k |-> 0]

\* a second difference taken from the padded first difference and padded again
Diff2_FromPaddedDiff1(x) == np_pad(np_diff(np_pad(np_diff(x, 1), 1), 1), 1)

\* diff1 and diff2 of compute_hjorth_parameters after padding
Diff1(x) == np_pad(np_diff(x, 1), 1)
Diff2(x) == np_pad(np_diff(x, 2), 2)

\* SignalProcessor.compute_hjorth_parameters.  mobility and complexity are
\* square roots; they are kept as their squares (sqrt keeps NaN, inf and 0).
compute_hjorth_parameters(x) ==
    LET activity == np_var(x)
        mobilitySq == FDiv(np_var(Diff1(x)), activity)
        complexitySq == FDiv(FDiv(np_var(Diff2(x)), np_var(Diff1(x))), mobilitySq)
    IN  Returned([diff1 |-> Diff1(x), diff2 |-> Diff2(x),
                  activity |-> activity,
                  mobilitySq |-> mobilitySq,
                  complexitySq |-> complexitySq])

\* signal.welch(x, fs, nperseg) on n samples with the defaults (Hann
\* window, nfft = nperseg, one-sided): an empty input returns empty arrays;
\* nperseg < 1 raises ValueError; nperseg larger than the input is replaced
\* by the input length (with a warning).  The frequencies are
\* np.fft.rfftfreq(nperseg, 1/fs): k * fs / nperseg for k = 0..nperseg // 2,
\* kept as rationals num/den.
welch(n, fs, nperseg) ==
    IF n = 0 THEN Returned([nperseg |-> 0, freqs |-> <<>>, psdLen |-> 0])
    ELSE IF nperseg < 1 THEN Raised("ValueError", "welch")
    ELSE LET seg == IF nperseg > n THEN n ELSE nperseg
         IN  Returned([nperseg |-> seg,
                       freqs |-> [i \in 1..(Floor(seg, 2) + 1) |->
                                     [num |-> (i - 1) * fs, den |-> seg]],
                       psdLen |-> Floor(seg, 2) + 1])

\* SignalProcessor(rate).compute_power_spectral_density on n samples
compute_power_spectral_density(n, rate) == welch(n, rate, rate)

-----------------------------------------------------------------------------
(* The sonifier: EEGSonifier(sampling_rate = ar, eeg_sampling_rate = er) *)

SeqMin(v) == CHOOSE m \in {v[i] : i \in 1..Len(v)} : \A i \in 1..Len(v) : m <= v[i]
SeqMax(v) == CHOOSE m \in {v[i] : i \in 1..Len(v)} : \A i \in 1..Len(v) : m >= v[i]

\* np.interp at t_audio[j] = j/ar over t_eeg[i] = i/er (er > 0, data not
\* empty), times ar: linear between the two neighbours, the last sample held
\* to the right of the data
InterpAt(j, data, er, ar) ==
    LET i0 == (j * er) \div ar
        r == (j * er) % ar
    IN  IF i0 >= Len(data) - 1 THEN data[Len(data)] * ar
        ELSE data[i0 + 1] * (ar - r) + data[i0 + 2] * r

\* a resampling whose length follows the data instead of the audio time axis
np_interp_LenOfData(n, data, er, ar) ==
    [nan |-> FALSE, samples |-> [j \in 1..Len(data) |-> data[j] * ar]]

\* np.interp(t_audio, t_eeg, data) for n audio samples, the samples times ar.
\* With er = 0 the time axis np.arange(len)/0 is [nan, inf, inf, ...] (a
\* warning, no exception): every comparison with it fails, the search stops at
\* the first interval, and every sample is data[0] when data[0] = data[1] (or
\* there is one sample) and NaN otherwise (nan: every sample is NaN).
np_interp(n, data, er, ar) ==
    IF er = 0
    THEN [nan |-> Len(data) >= 2 /\ data[1] # data[2],
          samples |-> [j \in 1..n |-> data[1] * ar]]
    ELSE [nan |-> FALSE,
          samples |-> [j \in 1..n |-> InterpAt(j - 1, data, er, ar)]]

\* (x - np.min(x)) / (np.max(x) - np.min(x)) on a non-empty buffer: sample i
\* is num[i]/den; a constant buffer divides 0 by 0 and every sample is NaN
MinMaxNormalize(buf) ==
    LET lo == SeqMin(buf.samples)
        hi == SeqMax(buf.samples)
    IN  [nan |-> buf.nan \/ hi = lo,
         den |-> hi - lo,
         num |-> [i \in 1..Len(buf.samples) |-> buf.samples[i] - lo]]

\* np.cumsum
RECURSIVE np_cumsum(_)
np_cumsum(v) ==
    IF Len(v) = 0 THEN <<>>
    ELSE LET front == np_cumsum(SubSeq(v, 1, Len(v) - 1))
         IN  Append(front, (IF Len(front) = 0 THEN 0 ELSE front[Len(front)])
                           + v[Len(v)])

\* int(duration * self.sampling_rate) audio samples for duration = durHalves/2;
\* np.arange of a negative count is empty
AudioLen(durHalves, ar) == Max(0, Trunc(durHalves * ar, 2))

\* EEGSonifier.simple_tone_mapping.  freq_mapped[i] = freq[i]/den Hz with
\* freq[i] = 100*den + 900*num[i]; phase[i] is in units of 2*pi/(ar*den).
\* The samples 0.5*sin(phase) are NaN exactly when the phase is.
simple_tone_mapping(data, durHalves, er, ar) ==
    LET n == AudioLen(durHalves, ar)
        eeg_interpolated == np_interp(n, data, er, ar)
        normalized_eeg == MinMaxNormalize(eeg_interpolated)
        freq == [i \in 1..Len(normalized_eeg.num) |->
                    100 * normalized_eeg.den + 900 * normalized_eeg.num[i]]
    IN  IF Len(data) = 0 THEN Raised("ValueError", "np.interp")
        ELSE IF Len(eeg_interpolated.samples) = 0
             THEN Raised("ValueError", "np.min")
        ELSE Returned([len |-> Len(eeg_interpolated.samples),
                       interp |-> eeg_interpolated,
                       nan |-> normalized_eeg.nan,
                       den |-> normalized_eeg.den,
                       freq |-> freq,
                       phase |-> np_cumsum(freq)])

\* the frequency deviation of each band's waveform; a name outside the
\* if/elif chain assigns no waveform
KnownBands == {"delta", "theta", "alpha", "beta", "gamma"}
Deviation(name) ==
    CASE name = "delta" -> 50
      [] name = "theta" -> 100
      [] name = "alpha" -> 200
      [] name = "beta"  -> 300
      [] name = "gamma" -> 400

\* the loop of multi_band_sonification over band_data.items() from entry i on.
\* wave is the waveform last assigned (NoWave before the first assignment),
\* mixed the waveforms added to audio_data so far.  A waveform is kept as the
\* band it was made for, its base frequency 100*(i+1) for the 0-based
\* enumerate index, its deviation, the entry whose signal drives it, and
\* whether its samples are NaN.
NoWave == [name |-> "none"]
RECURSIVE MixBands(_, _, _, _, _, _, _)
MixBands(bands, i, wave, mixed, n, er, ar) ==
    IF i > Len(bands) THEN Returned(mixed)
    ELSE IF Len(bands[i].signal) = 0 THEN Raised("ValueError", "np.interp")
    ELSE LET band_normalized ==
                 MinMaxNormalize(np_interp(n, bands[i].signal, er, ar))
             w == IF bands[i].name \in KnownBands
                  THEN [name |-> bands[i].name,
                        base_freq |-> 100 * i,
                        deviation |-> Deviation(bands[i].name),
                        entry |-> i,
                        nan |-> band_normalized.nan]
                  ELSE wave
         IN  IF w = NoWave THEN Raised("UnboundLocalError", "wave")
             ELSE MixBands(bands, i + 1, w, Append(mixed, w), n, er, ar)

\* the fixed duration of multi_band_sonification, in seconds
MultiDuration == 10

Abs(v) == IF v < 0 THEN -v ELSE v

\* a final step that scales by 0.9 without dividing by the peak
FinalNormalize_NoPeak(audio) ==
    [nan |-> audio.nan,
     num |-> [i \in 1..Len(audio.samples) |-> 9 * audio.samples[i]],
     den |-> 10]

\* the final normalization of multi_band_sonification:
\* audio_data / np.max(np.abs(audio_data)) * 0.9, applied without a test of
\* the peak.  The buffer is [nan, samples]; the result is sample i =
\* num[i] / den, and is NaN throughout when the buffer holds a NaN or its
\* peak is 0 (0/0, a warning and no exception).
FinalNormalize(audio) ==
    LET peak == SeqMax([i \in 1..Len(audio.samples) |-> Abs(audio.samples[i])])
    IN  IF audio.nan \/ peak = 0
        THEN [nan |-> TRUE, num |-> audio.samples, den |-> 0]
        ELSE [nan |-> FALSE,
              num |-> [i \in 1..Len(audio.samples) |-> 9 * audio.samples[i]],
              den |-> 10 * peak]

\* the buffer np.zeros(n) before any waveform is added
ZeroBuffer(n) == [nan |-> FALSE, samples |-> [i \in 1..n |-> 0]]

\* EEGSonifier.multi_band_sonification.  The final normalization gives NaN
\* for every sample when a waveform is NaN and when nothing was mixed (the
\* buffer is still np.zeros); a sum of waveforms is taken not to be
\* identically zero.
multi_band_sonification(bands, er, ar) ==
    LET n == MultiDuration * ar
        mix == MixBands(bands, 1, NoWave, <<>>, n, er, ar)
    IN  IF mix.kind = "raised" THEN mix
        ELSE Returned([len |-> n,
                       mixed |-> mix.value,
                       out |-> IF \E k \in 1..Len(mix.value) :
                                     mix.value[k].nan
                               THEN "nan"
                               ELSE IF mix.value = <<>>
                               THEN IF FinalNormalize(ZeroBuffer(n)).nan
                                    THEN "nan" ELSE "zero"
                               ELSE "scaled"])

\* how many times multi_band_sonification draws from np.random: once for
\* each gamma entry whose waveform is built (np.random.normal in the gamma
\* branch), that is, whose prefix of the mapping is processed without an
\* exception
MultiDraws(bands, er, ar) ==
    Cardinality({i \in 1..Len(bands) :
        /\ bands[i].name = "gamma"
        /\ MixBands(SubSeq(bands, 1, i), 1, NoWave, <<>>,
                    MultiDuration * ar, er, ar).kind = "returned"})

\* the int16 range and the scale factor of save_audio
Int16Min == -32768
Int16Max == 32767
PcmScale == 32767

\* the values .astype(np.int16) can give for the float num/den: the value
\* truncated toward zero when that fits int16; otherwise the C conversion
\* is undefined, and gives the truncated value wrapped modulo 2^16, the
\* nearest end of the range, or the most negative value, depending on the
\* build
astype_int16(num, den) ==
    LET t == Trunc(num, den)
    IN  IF Int16Min <= t /\ t <= Int16Max THEN {t}
        ELSE {((t - Int16Min) % (Int16Max - Int16Min + 1)) + Int16Min,
              IF t > Int16Max THEN Int16Max ELSE Int16Min,
              Int16Min}

\* the sequences that take their i-th element from the i-th set
RECURSIVE Choices(_)
Choices(sets) ==
    IF sets = <<>> THEN {<<>>}
    ELSE {<<v>> \o rest : v \in Head(sets), rest \in Choices(Tail(sets))}

\* EEGSonifier.save_audio: the sets of values the file can hold for each
\* sample of audio_data, (audio_data * 32767).astype(np.int16); a sample is
\* the rational num/den
save_audio(audio_data) ==
    [i \in 1..Len(audio_data) |->
        astype_int16(audio_data[i].num * PcmScale, audio_data[i].den)]

\* the buffer simple_tone_mapping returns, 0.5 * np.sin(phase), from the
\* values of the sine (rationals in [-1, 1]); NaN throughout when the
\* normalized signal is NaN
ToneAudio(nan, sines) ==
    [nan |-> nan,
     samples |-> [i \in 1..Len(sines) |->
                     [num |-> sines[i].num, den |-> 2 * sines[i].den]]]

\* the buffer multi_band_sonification returns from the mixed buffer
MultiAudio(nan, mixed) ==
    LET r == FinalNormalize([nan |-> nan, samples |-> mixed])
    IN  [nan |-> r.nan,
         samples |-> [i \in 1..Len(mixed) |->
                         [num |-> r.num[i],
                          den |-> IF r.nan THEN 1 ELSE r.den]]]

\* app.py: audio_data = audio_data * volume, the volume in hundredths
apply_volume(samples, volume) ==
    [i \in 1..Len(samples) |->
        [num |-> samples[i].num * volume, den |-> samples[i].den * 100]]

\* the values .astype(np.int16) can give for NaN: the conversion is
\* undefined, builds give 0 or the most negative value
astype_int16_NaN == {0, Int16Min}

\* app.py, an audio button: the sonifier's buffer times the volume, saved
\* by save_audio; the sets of values the file can hold for each sample
sonify_and_save(audio, volume) ==
    IF audio.nan THEN [i \in 1..Len(audio.samples) |-> astype_int16_NaN]
    ELSE save_audio(apply_volume(audio.samples, volume))

-----------------------------------------------------------------------------
(* Buffers: which arrays the analyzer and the sonifier write.              *)
(* An operation is the list of its statements that bind or write an array  *)
(* (line: the source line; target: the name bound or written; fn: the      *)
(* function or operator applied; src: the array it is applied to, "" when  *)
(* none), the names of its input arrays and the names it returns.          *)

St(line, target, fn, src) ==
    [line |-> line, target |-> target, fn |-> fn, src |-> src]

\* what a function or operator does with the array it is given: "new"
\* returns a newly allocated array, "alias" returns the array itself,
\* "inplace" writes into the target array
Binding_ViewsOfArgument(fn) ==
    IF fn = "+=" THEN "inplace"
    ELSE IF fn \in {"np.arange", "np.zeros"} THEN "new" ELSE "alias"

Binding(fn) ==
    IF fn = "+=" THEN "inplace"
    ELSE IF fn \in {"signal.filtfilt", "signal.welch", "np.diff", "np.pad",
                    "np.var", "np.sqrt", "np.arange", "np.zeros", "np.interp",
                    "np.cumsum", "arithmetic"}
         THEN "new" ELSE "alias"

BufferOperations ==
    {"bandpass", "decompose", "power_spectrum", "hjorth", "tone", "multi"}

Statements(operation) ==
    CASE operation = "bandpass" ->
           <<St(16, "filtered_data", "signal.filtfilt", "eeg_data")>>
      [] operation = "decompose" ->
           [i \in 1..5 |->
               St(21 + i, BandNames[i], "signal.filtfilt", "eeg_data")]
      [] operation = "power_spectrum" ->
           <<St(32, "freqs", "signal.welch", "eeg_data"),
             St(32, "psd", "signal.welch", "eeg_data")>>
      [] operation = "hjorth" ->
           <<St(39, "diff1", "np.diff", "eeg_data"),
             St(41, "diff2", "np.diff", "eeg_data"),
             St(44, "diff1", "np.pad", "diff1"),
             St(45, "diff2", "np.pad", "diff2"),
             St(48, "activity", "np.var", "eeg_data"),
             St(51, "mobility", "np.sqrt", "diff1"),
             St(54, "complexity", "np.sqrt", "diff2")>>
      [] operation = "tone" ->
           <<St(29, "t_eeg", "np.arange", ""),
             St(30, "t_audio", "np.arange", ""),
             St(31, "eeg_interpolated", "np.interp", "eeg_data"),
             St(35, "normalized_eeg", "arithmetic", "eeg_interpolated"),
             St(43, "freq_mapped", "arithmetic", "normalized_eeg"),
             St(48, "phase", "np.cumsum", "freq_mapped"),
             St(52, "audio", "arithmetic", "phase")>>
      [] operation = "multi" ->
           <<St(70, "audio_data", "np.zeros", ""),
             St(76, "t_eeg", "np.arange", ""),
             St(77, "t_audio", "np.arange", ""),
             St(78, "band_interpolated", "np.interp", "band_signal"),
             St(82, "band_normalized", "arithmetic", "band_interpolated"),
             St(99, "phase", "np.cumsum", "band_normalized"),
             St(100, "wave", "arithmetic", "phase"),
             St(130, "audio_data", "+=", "wave"),
             St(134, "audio_data", "arithmetic", "audio_data")>>

InputNames(operation) ==
    IF operation = "multi" THEN <<"band_signal">> ELSE <<"eeg_data">>

ReturnedNames(operation) ==
    CASE operation = "bandpass" -> {"filtered_data"}
      [] operation = "decompose" -> {BandNames[i] : i \in 1..5}
      [] operation = "power_spectrum" -> {"freqs", "psd"}
      [] operation = "hjorth" -> {"activity", "mobility", "complexity"}
      [] operation = "tone" -> {"audio"}
      [] operation = "multi" -> {"audio_data"}

\* Arrays are numbered: the caller's input arrays -1, -2, ...; the array
\* allocated by statement i is i.  env is the set of <<name, array>>
\* bindings in force, written the set of arrays written in place.
ArrayOf(env, name) == (CHOOSE b \in env : b[1] = name)[2]

Rebind(env, name, array) ==
    {b \in env : b[1] # name} \cup {<<name, array>>}

RECURSIVE RunStatements(_, _, _, _)
RunStatements(sts, i, env, written) ==
    IF i > Len(sts) THEN [env |-> env, written |-> written]
    ELSE LET st == sts[i]
         IN  CASE Binding(st.fn) = "new" ->
                    RunStatements(sts, i + 1, Rebind(env, st.target, i),
                                  written)
               [] Binding(st.fn) = "alias" ->
                    RunStatements(sts, i + 1,
                                  Rebind(env, st.target, ArrayOf(env, st.src)),
                                  written)
               [] Binding(st.fn) = "inplace" ->
                    RunStatements(sts, i + 1, env,
                                  written \cup {ArrayOf(env, st.target)})

\* the effect of an operation on arrays: the caller's arrays, the arrays
\* written in place and the arrays returned
BufferEffects(operation) ==
    LET ins == InputNames(operation)
        env0 == {<<ins[k], -k>> : k \in 1..Len(ins)}
        run == RunStatements(Statements(operation), 1, env0, {})
    IN  [inputs |-> {-k : k \in 1..Len(ins)},
         written |-> run.written,
         returned |-> {ArrayOf(run.env, nm) : nm \in ReturnedNames(operation)}]

-----------------------------------------------------------------------------
(* The process-wide random generator: np.random *)

\* rng is the state of the one generator of the process: the seed it was
\* last seeded with (0: never seeded by the caller) and how many draws it
\* has served since.  drawn is the generator state at which the running
\* call took its first draw, which fixes the call's random values.
NoDraw == [seed |-> -1, pos |-> -1]

\* a call that draws k times from np.random
Consume(k) ==
    /\ rng.pos + k <= MaxRngDraws
    /\ rng' = [rng EXCEPT !.pos = @ + k]
    /\ drawn' = IF k > 0 THEN rng ELSE NoDraw

-----------------------------------------------------------------------------
(* Configuration (neural_sonify/config.py).                                *)
(* A value is a record of one field that tells its kind: an integer        *)
(* [int], a reference to one of the module-level default dictionaries by   *)
(* its number [ref], a dictionary owned by whoever holds it [dict], a      *)
(* Python tuple [tuple], or nothing [absent].  A dictionary is a function  *)
(* from the keys it may hold to values.  Of the default configuration the  *)
(* model keeps the sections audio (sample_rate, channels), preprocessing   *)
(* (filters, a nested dictionary with notch_freq and filter_order) and     *)
(* sonification (frequency_range, a tuple).                                *)

Sections == {"audio", "preprocessing", "sonification", "custom"}
Keys == {"sample_rate", "channels", "filters", "notch_freq", "filter_order",
         "frequency_range"}

Absent == [absent |-> TRUE]
IntVal(n) == [int |-> n]
RefVal(id) == [ref |-> id]
DictVal(d) == [dict |-> d]
TupleVal(items) == [tuple |-> items]
IsRef(value) == DOMAIN value = {"ref"}
IsOwnedDict(value) == DOMAIN value = {"dict"}
isinstance_dict(value) == IsRef(value) \/ IsOwnedDict(value)

EmptySection == [k \in Keys |-> Absent]
EmptyTop == [k \in Sections |-> Absent]

\* the module-level dictionaries: 1 AUDIO_CONFIG, 2 PREPROCESSING_CONFIG,
\* 3 PREPROCESSING_CONFIG["filters"], 4 SONIFICATION_CONFIG
DefaultHeap ==
    <<[EmptySection EXCEPT !["sample_rate"] = IntVal(44100),
                           !["channels"] = IntVal(1)],
      [EmptySection EXCEPT !["filters"] = RefVal(3)],
      [EmptySection EXCEPT !["notch_freq"] = IntVal(60),
                           !["filter_order"] = IntVal(4)],
      [EmptySection EXCEPT !["frequency_range"] = TupleVal(<<80, 1000>>)]>>

\* DEFAULT_CONFIG: the sections refer to the module-level dictionaries
DEFAULT_CONFIG ==
    [EmptyTop EXCEPT !["audio"] = RefVal(1), !["preprocessing"] = RefVal(2),
                     !["sonification"] = RefVal(4)]

\* DEFAULT_CONFIG.copy(): a new top-level dictionary whose values are the
\* same section dictionaries (a shallow copy)
dict_copy(d) == d

\* the contents of a dictionary value
Contents(value, h) == IF IsRef(value) THEN h[value.ref] ELSE value.dict

\* a value with every reference replaced by the contents it refers to
RECURSIVE Deep(_, _)
Deep(value, h) ==
    IF isinstance_dict(value)
    THEN DictVal([k \in DOMAIN Contents(value, h) |->
                     Deep(Contents(value, h)[k], h)])
    ELSE value

\* dict.update in place of the recursive update: every key of the source is
\* assigned
RECURSIVE update_config_shallow(_, _, _, _)
update_config_shallow(target, source, h, todo) ==
    IF todo = {} THEN [dict |-> target, heap |-> h]
    ELSE LET key == CHOOSE k \in todo : TRUE
         IN  update_config_shallow(
                 IF source[key] = Absent THEN target
                 ELSE [target EXCEPT ![key] = source[key]],
                 source, h, todo \ {key})

\* Configuration._update_config_recursive(target_dict, source_dict): the
\* target dictionary and the heap after the update.  A key whose target and
\* source values are both dictionaries is updated in place, through the
\* reference when the target value is a module-level dictionary; any other
\* key is assigned the source value.
RECURSIVE update_config_recursive(_, _, _, _)
update_config_recursive(target, source, h, todo) ==
    IF todo = {} THEN [dict |-> target, heap |-> h]
    ELSE LET key == CHOOSE k \in todo : TRUE
             value == source[key]
             rest == todo \ {key}
         IN  IF value = Absent
             THEN update_config_recursive(target, source, h, rest)
             ELSE IF isinstance_dict(target[key]) /\ isinstance_dict(value)
             THEN LET inner == update_config_recursive(
                                   Contents(target[key], h), value.dict, h,
                                   DOMAIN value.dict)
                  IN  IF IsRef(target[key])
                      THEN update_config_recursive(
                               target, source,
                               [inner.heap EXCEPT ![target[key].ref] = inner.dict],
                               rest)
                      ELSE update_config_recursive(
                               [target EXCEPT ![key] = DictVal(inner.dict)],
                               source, inner.heap, rest)
             ELSE update_config_recursive([target EXCEPT ![key] = value],
                                          source, h, rest)

\* yaml.dump(value) with the default Dumper: mappings and integers are
\* written plainly; a Python tuple is written as a sequence tagged
\* !!python/tuple.  The value has no references left (see Deep).
IsTuple(value) == DOMAIN value = {"tuple"}
RECURSIVE yaml_dump(_)
yaml_dump(value) ==
    IF IsOwnedDict(value)
    THEN DictVal([k \in DOMAIN value.dict |-> yaml_dump(value.dict[k])])
    ELSE IF IsTuple(value) THEN [python_tuple |-> value.tuple]
    ELSE value

\* whether a document holds a node with a Python-specific tag, which
\* yaml.safe_load refuses (ConstructorError)
RECURSIVE HasPythonTag(_)
HasPythonTag(document) ==
    IF IsOwnedDict(document)
    THEN \E k \in DOMAIN document.dict : HasPythonTag(document.dict[k])
    ELSE DOMAIN document = {"python_tuple"}

\* yaml.safe_load of a file: "raised" when the file cannot be opened or
\* parsed or holds a Python-specific tag, otherwise the loaded value
yaml_safe_load(file) ==
    IF DOMAIN file = {"unreadable"} \/ HasPythonTag(file)
    THEN Raised("Exception", "yaml.safe_load")
    ELSE Returned(file)

\* Configuration.save_to_file on an instance whose top-level dictionary is
\* top: the document written (self.config with its section dictionaries),
\* or False and no document when the path cannot be opened for writing
save_to_file(top, h, writable) ==
    IF writable
    THEN [ret |-> Returned(TRUE), doc |-> yaml_dump(Deep(DictVal(top), h))]
    ELSE [ret |-> Returned(FALSE), doc |-> [unreadable |-> TRUE]]

\* Configuration.load_from_file on an instance whose top-level dictionary is
\* top: a file that cannot be opened or parsed, or whose document is not a
\* mapping (an empty file gives None), raises inside the try block before
\* anything is updated, and False is returned
load_from_file(top, h, file) ==
    IF yaml_safe_load(file).kind = "raised" \/ ~IsOwnedDict(file)
    THEN [ret |-> Returned(FALSE), top |-> top, heap |-> h]
    ELSE LET r == update_config_recursive(top, file.dict, h, DOMAIN file.dict)
         IN  [ret |-> Returned(TRUE), top |-> r.dict, heap |-> r.heap]

\* Configuration.set(section, key, value)
set(top, h, section, key, value) ==
    LET created == IF top[section] = Absent
                   THEN [top EXCEPT ![section] = DictVal(EmptySection)]
                   ELSE top
        sec == created[section]
    IN  IF IsRef(sec)
        THEN [ret |-> Returned("None"), top |-> created,
              heap |-> [h EXCEPT ![sec.ref][key] = value]]
        ELSE IF IsOwnedDict(sec)
        THEN [ret |-> Returned("None"),
              top |-> [created EXCEPT ![section] =
                          DictVal([sec.dict EXCEPT ![key] = value])],
              heap |-> h]
        ELSE [ret |-> Raised("TypeError", "item assignment"),
              top |-> created, heap |-> h]

\* Configuration.get(section, key)
get(top, h, section, key) ==
    IF top[section] = Absent THEN Raised("KeyError", "section")
    ELSE IF ~isinstance_dict(top[section])
         THEN Raised("TypeError", "key in section")
    ELSE IF Contents(top[section], h)[key] = Absent
         THEN Raised("KeyError", "key")
    ELSE Returned(Deep(Contents(top[section], h)[key], h))

\* the setting at a path (section, key, nested key) of a configuration
\* value, Absent when there is none
RECURSIVE Lookup(_, _, _)
Lookup(value, h, path) ==
    IF path = <<>> THEN Deep(value, h)
    ELSE IF isinstance_dict(value)
         THEN Lookup(Contents(value, h)[Head(path)], h, Tail(path))
    ELSE Absent

\* Configuration(): self.config = DEFAULT_CONFIG.copy()
Configuration == dict_copy(DEFAULT_CONFIG)

-----------------------------------------------------------------------------
(* Inputs *)

GenRates == {0, 20, 64, 100, 256}
\* the duration slider's default, 10 s, in tenths of a second
DefaultDurTenths == 100
DurTenthsSet == ((-1)..MaxDurTenths) \cup {DefaultDurTenths}
\* the draws of np.random.choice(pop, count, replace=False) offered: runs of
\* count onsets with a stride of 1, width - 1 or width samples, starting at
\* 0 or ending at pop - 1; no onsets when the call raises
Draws(pop, count, width) ==
    IF random_choice(pop, count) # "ok" THEN {{}}
    ELSE {{base + k * stride : k \in 0..(count - 1)} :
             stride \in {d \in {1, width - 1, width} :
                            (count - 1) * d <= pop - 1},
             base \in {0, pop - 1 - (count - 1) * 1,
                       pop - 1 - (count - 1) * (width - 1),
                       pop - 1 - (count - 1) * width}}
         \cap SUBSET (0..(pop - 1))
StateDraws_WholeBuffer(state, rate, durTenths) ==
    IF rate = 0 THEN {{}}
    ELSE CASE state = "N1" /\ TimeLen(rate, durTenths) > VertexWidth ->
                 Draws(TimeLen(rate, durTenths), VertexCount, VertexWidth)
           [] state = "REM" /\ TimeLen(rate, durTenths) > SawtoothWidth ->
                 Draws(TimeLen(rate, durTenths), SawtoothCount, SawtoothWidth)
           [] OTHER -> {{}}

\* the draws offered to a generate call: the population excludes the last
\* VertexWidth (N1) or SawtoothWidth (REM) samples
StateDraws(state, rate, durTenths) ==
    IF rate = 0 THEN {{}}
    ELSE CASE state = "N1" ->
                 Draws(TimeLen(rate, durTenths) - VertexWidth,
                       VertexCount, VertexWidth)
           [] state = "REM" ->
                 Draws(TimeLen(rate, durTenths) - SawtoothWidth,
                       SawtoothCount, SawtoothWidth)
           [] OTHER -> {{}}
\* band edges in half-Hz offered to the band-pass primitive
EdgeSet == {-1, 0, 1, 8, 16, 60, 200}
FilterRates == {0, 20, 100, 200, 201, 256, 1000}
\* signal lengths offered to the filters
FilterLens == {0, 1, PadLen, PadLen + 1, 60}
\* explicit sample sequences: up to MaxLen samples with values 0..MaxVal
RECURSIVE SeqsUpTo(_, _)
SeqsUpTo(S, n) ==
    IF n = 0 THEN {<<>>}
    ELSE LET shorter == SeqsUpTo(S, n - 1)
         IN  shorter \cup {Append(q, v) : q \in {t \in shorter : Len(t) = n - 1},
                                          v \in S}
Signals == SeqsUpTo(0..MaxVal, MaxLen)
DurHalvesSet == (-1)..MaxDurHalves
EegRates == {0, 1, 2}
AudioRates == {2, 3}
\* band mappings offered to multi_band_sonification: the decomposition of the
\* five canonical bands in order, and every mapping of up to MaxEntries
\* distinct names, one of them not a canonical band
BandSignals == {<<>>, <<0, 0>>, <<0, 1>>}
EntryNames == KnownBands \cup {"sigma"}
CanonicalMappings ==
    {[i \in 1..5 |-> [name |-> BandNames[i], signal |-> f[i]]] :
        f \in [1..5 -> BandSignals]}
RECURSIVE MappingsUpTo(_)
MappingsUpTo(k) ==
    IF k = 0 THEN {<<>>}
    ELSE LET shorter == MappingsUpTo(k - 1)
         IN  shorter \cup
             {Append(m, [name |-> nm, signal |-> x]) :
                 m \in {t \in shorter : Len(t) = k - 1},
                 nm \in EntryNames, x \in BandSignals}
BandMappings ==
    CanonicalMappings \cup
    {m \in MappingsUpTo(MaxEntries) :
        \A i, j \in 1..Len(m) : i # j => m[i].name # m[j].name}

\* mixed buffers offered to the final normalization: up to MaxLen samples
\* with values -MaxVal..MaxVal
MixedBuffers == SeqsUpTo((-MaxVal)..MaxVal, MaxLen) \ {<<>>}

\* audio buffers offered to save_audio: 1..MaxSaved samples, each a
\* multiple of 1/4 between -MaxSampleQuarters/4 and MaxSampleQuarters/4
AudioSamples ==
    {[num |-> k, den |-> 4] : k \in (-MaxSampleQuarters)..MaxSampleQuarters}
AudioBuffers == SeqsUpTo(AudioSamples, MaxSaved) \ {<<>>}

\* values of np.sin(phase) offered: the multiples of 1/4 in [-1, 1]
SineValues == {[num |-> k, den |-> 4] : k \in (-4)..4}
SineBuffers == SeqsUpTo(SineValues, MaxSaved) \ {<<>>}
\* positions of the volume slider offered, in hundredths: 0.0, 0.5, 1.0
Volumes == {0, 50, 100}
\* the buffers the two sonification methods can return: tones, tones that
\* are NaN throughout (a constant signal), and normalized mixes, NaN when the
\* mix is all zeros
SonifierBuffers ==
    {ToneAudio(FALSE, sines) : sines \in SineBuffers}
    \cup {ToneAudio(TRUE, [i \in 1..n |-> [num |-> 0, den |-> 1]]) :
             n \in 1..MaxSaved}
    \cup {MultiAudio(FALSE, mixed) : mixed \in MixedBuffers}

-----------------------------------------------------------------------------
(* Actions *)

\* app.py: the generator of a brain state on a new EEGSimulator, for inputs
\* from the given sets
GenerateFrom(states, rates, durs) ==
    /\ op = "idle"
    /\ \E state \in states, rate \in rates, d \in durs :
       \E times \in StateDraws(state, rate, d) :
          /\ op' = "generate"
          /\ args' = [state |-> state, rate |-> rate, durTenths |-> d]
          /\ ret' = generate(state, rate, d, times)
          /\ Consume(GenerateDraws(state, rate, d))
    /\ UNCHANGED <<last, heap, tops, disk, session>>

CallGenerate == GenerateFrom(BrainStates, GenRates, DurTenthsSet)

\* EEGSimulator(rate, duration).generate_band_limited_noise(low, high)
CallNoise ==
    /\ op = "idle"
    /\ \E rate \in GenRates, d \in {0, 2, 5, 10},
          low2 \in EdgeSet, high2 \in EdgeSet :
          /\ op' = "noise"
          /\ args' = [rate |-> rate, durTenths |-> d,
                      low2 |-> low2, high2 |-> high2]
          /\ ret' = IF rate = 0 THEN Raised("ZeroDivisionError", "__init__")
                    ELSE generate_band_limited_noise(TimeLen(rate, d),
                                                     low2, high2, rate)
          /\ Consume(IF rate = 0 \/ TimeLen(rate, d) = 0 THEN 0 ELSE 1)
    /\ UNCHANGED <<last, heap, tops, disk, session>>

\* SignalProcessor(rate).apply_bandpass_filter(eeg_data, low, high)
CallBandpass ==
    /\ op = "idle"
    /\ \E rate \in FilterRates, n \in FilterLens,
          low2 \in EdgeSet, high2 \in EdgeSet :
          /\ op' = "bandpass"
          /\ args' = [rate |-> rate, len |-> n,
                      low2 |-> low2, high2 |-> high2]
          /\ ret' = apply_bandpass_filter(n, low2, high2, rate)
    /\ Consume(0)
    /\ UNCHANGED <<last, heap, tops, disk, session>>

\* SignalProcessor(rate).extract_frequency_bands(eeg_data)
CallDecompose ==
    /\ op = "idle"
    /\ \E rate \in FilterRates, n \in FilterLens :
          /\ op' = "decompose"
          /\ args' = [rate |-> rate, len |-> n]
          /\ ret' = extract_frequency_bands(n, rate)
    /\ Consume(0)
    /\ UNCHANGED <<last, heap, tops, disk, session>>

\* SignalProcessor(rate).compute_power_spectral_density(eeg_data)
CallPowerSpectrum ==
    /\ op = "idle"
    /\ \E rate \in FilterRates, n \in FilterLens \cup FilterRates :
          /\ op' = "power_spectrum"
          /\ args' = [rate |-> rate, len |-> n]
          /\ ret' = compute_power_spectral_density(n, rate)
    /\ Consume(0)
    /\ UNCHANGED <<last, heap, tops, disk, session>>

\* SignalProcessor().compute_hjorth_parameters(eeg_data)
CallHjorth ==
    /\ op = "idle"
    /\ \E x \in Signals :
          /\ op' = "hjorth"
          /\ args' = [signal |-> x]
          /\ ret' = compute_hjorth_parameters(x)
    /\ Consume(0)
    /\ UNCHANGED <<last, heap, tops, disk, session>>

\* EEGSonifier(ar, er).simple_tone_mapping(eeg_data, duration)
CallToneMapping ==
    /\ op = "idle"
    /\ \E x \in Signals, d \in DurHalvesSet, er \in EegRates, ar \in AudioRates :
          /\ op' = "tone"
          /\ args' = [signal |-> x, durHalves |-> d, er |-> er, ar |-> ar]
          /\ ret' = simple_tone_mapping(x, d, er, ar)
    /\ Consume(0)
    /\ UNCHANGED <<last, heap, tops, disk, session>>

\* EEGSonifier(ar, er).multi_band_sonification(band_data), for inputs from
\* the given sets
MultiBandFrom(mappings, ers, ars) ==
    /\ op = "idle"
    /\ \E bands \in mappings, er \in ers, ar \in ars :
          /\ op' = "multi"
          /\ args' = [bands |-> bands, er |-> er, ar |-> ar]
          /\ ret' = multi_band_sonification(bands, er, ar)
          /\ Consume(MultiDraws(bands, er, ar))
    /\ UNCHANGED <<last, heap, tops, disk, session>>

CallMultiBand == MultiBandFrom(BandMappings, EegRates, AudioRates)

\* the last step of multi_band_sonification on a mixed buffer
CallFinalNormalize ==
    /\ op = "idle"
    /\ \E samples \in MixedBuffers, nan \in BOOLEAN :
          /\ op' = "final_normalize"
          /\ args' = [audio |-> [nan |-> nan, samples |-> samples]]
          /\ ret' = Returned(FinalNormalize([nan |-> nan, samples |-> samples]))
    /\ Consume(0)
    /\ UNCHANGED <<last, heap, tops, disk, session>>

\* EEGSonifier().save_audio(audio_data, filename): the outcome is the
\* sequence of 16-bit values written to the file
CallSaveAudio ==
    /\ op = "idle"
    /\ \E audio_data \in AudioBuffers :
       \E pcm \in Choices(save_audio(audio_data)) :
          /\ op' = "save_audio"
          /\ args' = [audio_data |-> audio_data]
          /\ ret' = Returned([pcm |-> pcm])
    /\ Consume(0)
    /\ UNCHANGED <<last, heap, tops, disk, session>>

\* app.py, Generate & Play Audio / Save Audio on the buffer the sonifier
\* returned: the volume is applied and the result saved
CallSonifyAndSave ==
    /\ op = "idle"
    /\ \E audio \in SonifierBuffers, volume \in Volumes :
       \E pcm \in Choices(sonify_and_save(audio, volume)) :
          /\ op' = "sonify_and_save"
          /\ args' = [audio |-> audio, volume |-> volume]
          /\ ret' = Returned([pcm |-> pcm])
    /\ Consume(0)
    /\ UNCHANGED <<last, heap, tops, disk, session>>

\* an analyzer or sonifier operation, seen as reads and writes of arrays
CallOnBuffers ==
    /\ op = "idle"
    /\ \E operation \in BufferOperations :
          /\ op' = "buffers"
          /\ args' = [operation |-> operation]
          /\ ret' = Returned(BufferEffects(operation))
    /\ Consume(0)
    /\ UNCHANGED <<last, heap, tops, disk, session>>

\* no configuration file has been written
NoFile == [doc |-> [unreadable |-> TRUE], saved |-> [unreadable |-> TRUE]]

\* the Configuration instances: the module-level one that get_config()
\* returns, and one the caller constructed
Instances == {"config", "mine"}

\* the application's default sampling rate
DefaultRate == 256

\* st.session_state.eeg_data is None
NoData == [none |-> TRUE]

\* the session of a browser that has just opened the app: the sliders at
\* their defaults, no data stored.  generated_with (the slider values at
\* the run that stored eeg_data) and stages (the stages the last run of
\* the script entered) are kept to state properties; the app does not
\* store them.
NewSession ==
    [sampling_rate |-> DefaultRate, duration |-> DefaultDurTenths \div 10,
     eeg_data |-> NoData, generated_with |-> NoData, stages |-> {}]

\* no generate call has returned yet
NoCall == [args |-> NoArgs, drawn |-> NoDraw]

\* the caller takes the outcome
Return ==
    /\ op # "idle"
    /\ op' = "idle"
    /\ args' = NoArgs
    /\ ret' = NoRet
    /\ drawn' = NoDraw
    /\ UNCHANGED <<rng, last, heap, tops, disk, session>>

Init ==
    /\ op = "idle"
    /\ args = NoArgs
    /\ ret = NoRet
    /\ rng = [seed |-> 0, pos |-> 0]
    /\ drawn = NoDraw
    /\ last = NoCall
    /\ heap = DefaultHeap
    /\ tops = [i \in Instances |-> Configuration]
    /\ disk = NoFile
    /\ session = NewSession

Next ==
    \/ CallGenerate
    \/ CallNoise
    \/ CallBandpass
    \/ CallDecompose
    \/ CallPowerSpectrum
    \/ CallHjorth
    \/ CallToneMapping
    \/ CallMultiBand
    \/ CallFinalNormalize
    \/ CallOnBuffers
    \/ CallSaveAudio
    \/ CallSonifyAndSave
    \/ Return

Spec == Init /\ [][Next]_vars

-----------------------------------------------------------------------------
(* Seeded runs: a caller that seeds np.random, which is the only seeding   *)
(* the generator admits (no operation takes a seed or a generator), and    *)
(* that keeps the last generate call to compare the next one with.         *)

\* the decompositions offered between two generate calls
BetweenMappings ==
    {m \in CanonicalMappings : \A i \in 1..5 : m[i].signal = <<0, 1>>}
    \cup {<<>>}

\* np.random.seed(s) by the caller
SeedGenerator ==
    /\ op = "idle"
    /\ \E s \in 1..MaxSeed : rng' = [seed |-> s, pos |-> 0]
    /\ UNCHANGED <<op, args, ret, drawn, last, heap, tops, disk, session>>

CallGenerateRecorded ==
    GenerateFrom(BrainStates, {DefaultRate}, {DefaultDurTenths})

CallMultiBandBetween == MultiBandFrom(BetweenMappings, {1}, {2})

\* the caller takes the outcome and keeps the generate call it came from
ReturnRecorded ==
    /\ op # "idle"
    /\ op' = "idle"
    /\ args' = NoArgs
    /\ ret' = NoRet
    /\ drawn' = NoDraw
    /\ last' = IF op = "generate" THEN [args |-> args, drawn |-> drawn]
               ELSE last
    /\ UNCHANGED <<rng, heap, tops, disk, session>>

SeedNext ==
    \/ SeedGenerator
    \/ CallGenerateRecorded
    \/ CallMultiBandBetween
    \/ ReturnRecorded

SeedSpec == Init /\ [][SeedNext]_vars

-----------------------------------------------------------------------------
(* Configuration calls *)

\* the value and the key offered to set
SetValues == {IntVal(8000)}
SetKeys == {"sample_rate"}
\* what load_from_file finds: a file that cannot be opened or parsed, an
\* empty document, and documents that set a key of a default section, a
\* nested key, a section to a scalar, and a section of their own
Unreadable == [unreadable |-> TRUE]
EmptyDocument == [empty |-> TRUE]
ConfigFiles ==
    {Unreadable, EmptyDocument,
     DictVal([EmptyTop EXCEPT !["audio"] =
         DictVal([EmptySection EXCEPT !["sample_rate"] = IntVal(8000)])]),
     DictVal([EmptyTop EXCEPT !["preprocessing"] =
         DictVal([EmptySection EXCEPT !["filters"] =
             DictVal([EmptySection EXCEPT !["filter_order"] = IntVal(2)])])]),
     DictVal([EmptyTop EXCEPT !["audio"] = IntVal(8000)]),
     DictVal([EmptyTop EXCEPT !["custom"] =
         DictVal([EmptySection EXCEPT !["sample_rate"] = IntVal(8000)])])}

\* instance.set(section, key, value), for instances and keys from the
\* given sets
SetFrom(insts, keys) ==
    /\ op = "idle"
    /\ \E inst \in insts, section \in Sections, key \in keys,
          value \in SetValues :
          LET r == set(tops[inst], heap, section, key, value)
          IN  /\ op' = "set"
              /\ args' = [inst |-> inst, section |-> section, key |-> key,
                          value |-> value]
              /\ ret' = r.ret
              /\ tops' = [tops EXCEPT ![inst] = r.top]
              /\ heap' = r.heap
    /\ UNCHANGED <<rng, drawn, last, disk, session>>

CallSet == SetFrom(Instances, SetKeys)

\* instance.load_from_file(path)
CallLoadFromFile ==
    /\ op = "idle"
    /\ \E inst \in Instances, file \in ConfigFiles :
          LET r == load_from_file(tops[inst], heap, file)
          IN  /\ op' = "load_from_file"
              /\ args' = [inst |-> inst, file |-> file]
              /\ ret' = r.ret
              /\ tops' = [tops EXCEPT ![inst] = r.top]
              /\ heap' = r.heap
    /\ UNCHANGED <<rng, drawn, last, disk, session>>

\* reset_to_defaults(): config = Configuration()
CallResetToDefaults ==
    /\ op = "idle"
    /\ op' = "reset_to_defaults"
    /\ args' = NoArgs
    /\ ret' = Returned("None")
    /\ tops' = [tops EXCEPT !["config"] = Configuration]
    /\ UNCHANGED <<heap, rng, drawn, last, disk, session>>

\* get_config().get(section, key)
CallGet ==
    /\ op = "idle"
    /\ \E section \in Sections, key \in Keys :
          /\ op' = "get"
          /\ args' = [section |-> section, key |-> key]
          /\ ret' = get(tops["config"], heap, section, key)
    /\ UNCHANGED <<heap, tops, rng, drawn, last, disk, session>>

ConfigNext ==
    \/ CallSet
    \/ CallLoadFromFile
    \/ CallResetToDefaults
    \/ CallGet
    \/ Return

ConfigSpec == Init /\ [][ConfigNext]_vars

-----------------------------------------------------------------------------
(* Saving the module-level configuration and loading the file into a new   *)
(* Configuration                                                           *)

CallSetBeforeSave == SetFrom({"config"}, {"sample_rate", "frequency_range"})

\* get_config().save_to_file(path); disk keeps the document and, to compare
\* with later, the configuration that was saved
CallSaveToFile ==
    /\ op = "idle"
    /\ \E writable \in BOOLEAN :
          LET r == save_to_file(tops["config"], heap, writable)
          IN  /\ op' = "save_to_file"
              /\ args' = [writable |-> writable]
              /\ ret' = r.ret
              /\ disk' = IF writable
                         THEN [doc |-> r.doc,
                               saved |-> Deep(DictVal(tops["config"]), heap)]
                         ELSE disk
    /\ UNCHANGED <<heap, tops, rng, drawn, last, session>>

\* mine = Configuration(); mine.load_from_file(path)
CallLoadIntoFresh ==
    /\ op = "idle"
    /\ LET r == load_from_file(Configuration, heap, disk.doc)
       IN  /\ op' = "load_fresh"
           /\ args' = NoArgs
           /\ ret' = r.ret
           /\ tops' = [tops EXCEPT !["mine"] = r.top]
           /\ heap' = r.heap
    /\ UNCHANGED <<rng, drawn, last, disk, session>>

RoundTripNext ==
    \/ CallSetBeforeSave
    \/ CallSaveToFile
    \/ CallLoadIntoFresh
    \/ Return

RoundTripSpec == Init /\ [][RoundTripNext]_vars

-----------------------------------------------------------------------------
(* The app (app.py): one run of the script per interaction *)

\* slider positions offered: the ends and the default of Sampling Rate
\* (100..1000 Hz), the low end and the default of Duration (5..60 s)
SliderRates == {100, DefaultRate, 1000}
SliderDurations == {5, DefaultDurTenths \div 10}
AudioButtons == {"Generate & Play Audio", "Save Audio"}
Methods == {"Simple Tone Mapping", "Multi-band Sonification"}

\* one run of the script with the sliders as in s and the given button
\* pressed ("" when the run follows a slider): the simulator, processor and
\* sonifier are constructed from the sliders (lines 66-71); Generate stores
\* the new buffer; with a stored buffer, an audio button sonifies it, and
\* the tabs analyse it (power spectrum, bands, Hjorth).  An exception ends
\* the run where it is raised; what the run stored before stays stored.
RunScript(s, button, brain_state, method, times) ==
    LET gen == generate(brain_state, s.sampling_rate, 10 * s.duration, times)
        generated == button = "Generate EEG Data"
        stored == IF generated /\ gen.kind = "returned"
                  THEN [s EXCEPT
                           !.eeg_data = [len |-> gen.value.len],
                           !.generated_with =
                               [sampling_rate |-> s.sampling_rate,
                                duration |-> s.duration]]
                  ELSE s
        bands == extract_frequency_bands(stored.eeg_data.len, s.sampling_rate)
        tone == button \in AudioButtons /\ method = "Simple Tone Mapping"
        multi == button \in AudioButtons /\ method = "Multi-band Sonification"
        before == (IF generated THEN {"generate"} ELSE {})
                  \cup (IF tone THEN {"tone"} ELSE {})
        end(outcome, stages) ==
            [ret |-> outcome, session |-> [stored EXCEPT !.stages = stages]]
    IN  IF generated /\ gen.kind = "raised" THEN end(gen, before)
        ELSE IF stored.eeg_data = NoData THEN end(Returned([len |-> 0]), before)
        ELSE IF bands.kind = "raised"
             THEN IF multi THEN end(bands, before \cup {"bands"})
                  ELSE end(bands, before \cup {"psd", "bands"})
        ELSE end(Returned(stored.eeg_data),
                 before \cup (IF multi THEN {"multi"} ELSE {})
                        \cup {"psd", "bands", "hjorth"})

\* the draws of a run: the generator's, and the gamma noise of the
\* multi-band sonification
ScriptDraws(s, button, brain_state, method) ==
    (IF button = "Generate EEG Data"
     THEN GenerateDraws(brain_state, s.sampling_rate, 10 * s.duration) ELSE 0)
    + (IF "multi" \in RunScript(s, button, brain_state, method, {}).session.stages
       THEN 1 ELSE 0)

Rerun(s, button, brain_state, method, times) ==
    /\ op' = "rerun"
    /\ args' = [button |-> button, brain_state |-> brain_state,
                method |-> method, sampling_rate |-> s.sampling_rate,
                duration |-> s.duration]
    /\ ret' = RunScript(s, button, brain_state, method, times).ret
    /\ session' = RunScript(s, button, brain_state, method, times).session
    /\ Consume(ScriptDraws(s, button, brain_state, method))
    /\ UNCHANGED <<last, heap, tops, disk>>

\* the user moves one of the two sliders
MoveSlider ==
    /\ op = "idle"
    /\ \E rate \in SliderRates, d \in SliderDurations,
          state \in BrainStates, method \in Methods :
          /\ (rate = session.sampling_rate) # (d = session.duration)
          /\ Rerun([session EXCEPT !.sampling_rate = rate, !.duration = d],
                   "", state, method, {})

\* the user presses Generate EEG Data
PressGenerate ==
    /\ op = "idle"
    /\ \E state \in BrainStates, method \in Methods :
       \E times \in StateDraws(state, session.sampling_rate,
                               10 * session.duration) :
          Rerun(session, "Generate EEG Data", state, method, times)

\* the user presses one of the audio buttons, which exist once data is stored
PressAudio ==
    /\ op = "idle"
    /\ session.eeg_data # NoData
    /\ \E button \in AudioButtons, state \in BrainStates, method \in Methods :
          Rerun(session, button, state, method, {})

AppNext ==
    \/ MoveSlider
    \/ PressGenerate
    \/ PressAudio
    \/ Return

AppSpec == Init /\ [][AppNext]_vars

-----------------------------------------------------------------------------
(* Properties: the generator *)

\* the inputs C1 calls valid: rate > 0, duration > 0, every band edge the
\* state uses below Nyquist, and rate*duration >= 1
GenValid(a) ==
    /\ a.rate > 0
    /\ a.durTenths > 0
    /\ \A i \in 1..Len(StateBands(a.state)) : StateBands(a.state)[i][2] < a.rate
    /\ a.rate * a.durTenths >= 10

\* C1: for every brain state and every valid (sampling_rate, duration), the
\* generator returns, without an error, exactly round(sampling_rate*duration)
\* samples.
C1_GenerateReturnsRoundedLength ==
    (op = "generate" /\ GenValid(args)) =>
        /\ ret.kind = "returned"
        /\ ret.value.len = Round(args.rate * args.durTenths, 10)

-----------------------------------------------------------------------------
(* Properties: the band-pass primitive *)

\* 0 < low < high < sampling_rate/2, the edges in half-Hz
BandValid(a) == 0 < a.low2 /\ a.low2 < a.high2 /\ a.high2 < a.rate

\* C2: generate_band_limited_noise and apply_bandpass_filter end in an error
\* raised for the parameters (before any sample is filtered) and return no
\* signal whenever 0 < low < high < sampling_rate/2 is violated.
C2_InvalidBandRaises ==
    (op \in {"noise", "bandpass"} /\ ~BandValid(args)) =>
        /\ ret.kind = "raised"
        /\ ret.exc \in {"ValueError", "ZeroDivisionError"}
        /\ ret.at \in {"butter", "nyquist", "__init__"}

\* both edges inside (0, Nyquist), low >= high, on a signal long enough to be
\* filtered: the call has ended in butter's ValueError
C2_Witness ==
    /\ op = "bandpass"
    /\ args.low2 = 16 /\ args.high2 = 8 /\ args.rate = 256 /\ args.len = 60
    /\ ret = Raised("ValueError", "butter")

\* C3: for every input signal and every sampling rate in [100, 1000] Hz,
\* extract_frequency_bands returns the five keys delta, theta, alpha, beta,
\* gamma in that order, each value as long as the input.  (Stated for the
\* signals long enough for filtfilt; the shorter ones fail at every rate.)
C3_DecomposeFiveBands ==
    (/\ op = "decompose"
     /\ args.rate >= 100 /\ args.rate <= 1000
     /\ args.len > PadLen) =>
        /\ ret.kind = "returned"
        /\ Len(ret.value) = 5
        /\ \A i \in 1..5 : /\ ret.value[i].name = BandNames[i]
                           /\ ret.value[i].len = args.len

-----------------------------------------------------------------------------
(* Properties: Hjorth parameters *)

\* the variance of a non-empty signal is 0: every sample is the same
ZeroVariance(x) == Len(x) >= 1 /\ \A i \in 1..Len(x) : x[i] = x[1]

\* C4: compute_hjorth_parameters on a signal whose variance is 0 signals a
\* DegenerateSignal condition instead of returning a triple computed by
\* dividing by zero.
C4_HjorthDegenerateSignal ==
    (op = "hjorth" /\ ZeroVariance(args.signal)) =>
        /\ ret.kind = "raised"
        /\ ret.exc = "DegenerateSignal"

\* d1 is the first difference of x followed by one zero
IsPaddedFirstDifference(d1, x) ==
    /\ Len(d1) = Len(x)
    /\ \A i \in 1..(Len(x) - 1) : d1[i] = x[i + 1] - x[i]
    /\ d1[Len(x)] = 0

\* C5 (as amended): for every signal of length n >= 2, d1 is the first
\* difference of the signal padded with one trailing zero, and d2 is the
\* second difference of the signal, d2[i] = x[i+2] - 2*x[i+1] + x[i], padded
\* with two trailing zeros: d2 has length n and its last two entries are 0.
C5_HjorthDifferences ==
    (op = "hjorth" /\ Len(args.signal) >= 2) =>
        LET x == args.signal
            n == Len(x)
            d2 == ret.value.diff2
        IN  /\ ret.kind = "returned"
            /\ IsPaddedFirstDifference(ret.value.diff1, x)
            /\ Len(d2) = n
            /\ \A i \in 1..(n - 2) : d2[i] = x[i + 2] - 2 * x[i + 1] + x[i]
            /\ d2[n - 1] = 0
            /\ d2[n] = 0

\* a signal of three samples whose last two differ, where the two readings of
\* d2 disagree
C5_Witness ==
    /\ op = "hjorth"
    /\ Len(args.signal) = 3
    /\ args.signal[3] # args.signal[2]
    /\ ret.kind = "returned"
    /\ ret.value.diff2[2] = 0

\* C5 (as claimed): d2 is the first-difference-then-zero-pad step applied to
\* the zero-padded d1, so that (0-based) d2[n-2] = 0 - d1[n-2].
C5_Diff2FromPaddedDiff1 ==
    (op = "hjorth" /\ Len(args.signal) >= 2) =>
        LET n == Len(args.signal)
        IN  /\ IsPaddedFirstDifference(ret.value.diff1, args.signal)
            /\ IsPaddedFirstDifference(ret.value.diff2, ret.value.diff1)
            /\ ret.value.diff2[n - 1] = 0 - ret.value.diff1[n - 1]

-----------------------------------------------------------------------------
(* Properties: the sonifier *)

\* C6: the length of a sonification output depends only on the duration and
\* the audio rate: simple_tone_mapping returns floor(duration*audio_rate)
\* samples (duration*audio_rate when that is a whole number) and
\* multi_band_sonification returns 10*audio_rate samples, whatever the EEG
\* buffer length and the EEG sampling rate.
C6_OutputLength ==
    /\ (op = "tone" /\ ret.kind = "returned") =>
          /\ 2 * ret.value.len <= args.durHalves * args.ar
          /\ args.durHalves * args.ar < 2 * (ret.value.len + 1)
    /\ (op = "multi" /\ ret.kind = "returned") =>
          ret.value.len = 10 * args.ar

\* 3 EEG samples at 2 Hz sonified for 1.5 s at an audio rate of 3 Hz: 4 samples
C6_Witness ==
    /\ op = "tone"
    /\ Len(args.signal) = 3 /\ args.er = 2 /\ args.ar = 3 /\ args.durHalves = 3
    /\ ret.kind = "returned"
    /\ ret.value.len = 4

\* the resampled buffer of a tone mapping is constant (max = min)
ResampledConstant(v) ==
    /\ ~v.interp.nan
    /\ \A i, j \in 1..Len(v.interp.samples) :
          v.interp.samples[i] = v.interp.samples[j]

\* C7: when the resampled buffer is constant, the normalized value is 0 for
\* every sample, every instantaneous frequency is 100 Hz and the output
\* contains no NaN.
C7_ConstantBufferMapsTo100Hz ==
    (/\ op = "tone"
     /\ args.er > 0
     /\ ret.kind = "returned"
     /\ ResampledConstant(ret.value)) =>
        /\ ~ret.value.nan
        /\ \A i \in 1..ret.value.len : ret.value.freq[i] = 100 * ret.value.den

\* the frequencies and phases of a tone mapping whose samples are not NaN:
\* every frequency in [100, 1000] Hz, 100 at the minimum and 1000 at the
\* maximum of the buffer, the phase the running sum of the frequencies, never
\* decreasing and growing by at most 2*pi*1000/audio_rate per sample
FrequenciesAndPhaseBounded(v) ==
    /\ ~v.nan
    /\ \A i \in 1..v.len :
          100 * v.den <= v.freq[i] /\ v.freq[i] <= 1000 * v.den
    /\ \A i \in 1..v.len :
          /\ v.interp.samples[i] = SeqMin(v.interp.samples)
                => v.freq[i] = 100 * v.den
          /\ v.interp.samples[i] = SeqMax(v.interp.samples)
                => v.freq[i] = 1000 * v.den
    /\ v.phase[1] = v.freq[1]
    /\ \A i \in 1..(v.len - 1) :
          /\ v.phase[i + 1] = v.phase[i] + v.freq[i + 1]
          /\ v.phase[i + 1] >= v.phase[i]
          /\ v.phase[i + 1] - v.phase[i] <= 1000 * v.den

\* C8: for every non-constant input, every instantaneous frequency lies in
\* [100, 1000] Hz and the phase is the running sum of 2*pi*f/audio_rate.
C8_FrequencyRangeAndPhase ==
    (/\ op = "tone"
     /\ args.er > 0
     /\ ret.kind = "returned"
     /\ \E i, j \in 1..Len(args.signal) : args.signal[i] # args.signal[j]) =>
        FrequenciesAndPhaseBounded(ret.value)

\* what simple_tone_mapping does satisfy: the bounds of C8 whenever the
\* resampled buffer (not the input) is not constant
ToneBoundedWhenResampledVaries ==
    (op = "tone" /\ ret.kind = "returned" /\ ~ret.value.nan) =>
        FrequenciesAndPhaseBounded(ret.value)

\* C9: a sonification call given an empty input signal, a duration <= 0 or
\* an EEG sampling rate of 0 ends in an error; no call returns a zero-length
\* buffer or a buffer containing NaN.
C9_InvalidSonificationRaises ==
    /\ op = "tone" =>
          /\ (Len(args.signal) = 0 \/ args.durHalves <= 0 \/ args.er = 0)
                => ret.kind = "raised"
          /\ ret.kind = "returned" => (ret.value.len > 0 /\ ~ret.value.nan)
    /\ op = "multi" =>
          /\ ((\E i \in 1..Len(args.bands) : Len(args.bands[i].signal) = 0)
              \/ args.er = 0)
                => ret.kind = "raised"
          /\ ret.kind = "returned" =>
                (ret.value.len > 0 /\ ret.value.out # "nan")

\* a decomposition (the five canonical bands) whose band signals are all-zero
AllZeroDecomposition(bands) ==
    /\ Len(bands) = 5
    /\ \A i \in 1..5 :
          /\ bands[i].name = BandNames[i]
          /\ Len(bands[i].signal) >= 1
          /\ \A k \in 1..Len(bands[i].signal) : bands[i].signal[k] = 0

\* C10: multi_band_sonification of a decomposition in which every band signal
\* is all-zero returns a buffer whose every sample is exactly 0, not NaN.
C10_AllZeroBandsGiveZeroBuffer ==
    (op = "multi" /\ args.er > 0 /\ AllZeroDecomposition(args.bands)) =>
        /\ ret.kind = "returned"
        /\ ret.value.out = "zero"

\* the mixed buffer holds no NaN and no sample other than 0
AllZeroBuffer(audio) ==
    /\ ~audio.nan
    /\ \A i \in 1..Len(audio.samples) : audio.samples[i] = 0

\* every output sample has magnitude at most 0.9 and the largest is 0.9
PeakIsNineTenths(v) ==
    /\ ~v.nan
    /\ \A i \in 1..Len(v.num) : 10 * Abs(v.num[i]) <= 9 * v.den
    /\ \E i \in 1..Len(v.num) : 10 * Abs(v.num[i]) = 9 * v.den

\* C11: after the final normalization every output sample has magnitude at
\* most 0.9, the largest being exactly 0.9 when the mixed buffer is not
\* all-zero; an all-zero mixed buffer is returned unchanged (all zeros, no
\* NaN), and a call that mixes nothing returns the zero buffer.
C11_FinalNormalization ==
    /\ (op = "final_normalize" /\ ~args.audio.nan) =>
          IF AllZeroBuffer(args.audio)
          THEN /\ ~ret.value.nan
               /\ \A i \in 1..Len(ret.value.num) : ret.value.num[i] = 0
          ELSE PeakIsNineTenths(ret.value)
    /\ (op = "multi" /\ ret.kind = "returned" /\ ret.value.mixed = <<>>) =>
          ret.value.out = "zero"

\* what the final normalization does satisfy: the bound and the peak of C11
\* for every mixed buffer that is not all-zero
PeakIsNineTenthsWhenNotZero ==
    (op = "final_normalize" /\ ~args.audio.nan
     /\ ~AllZeroBuffer(args.audio)) =>
        PeakIsNineTenths(ret.value)

\* position of a band in the canonical order delta, theta, alpha, beta, gamma
CanonicalIndex(name) == CHOOSE i \in 1..5 : BandNames[i] = name

\* C12: the base carrier of each canonical band is 100 Hz times its
\* canonical index, for every band mapping passed to multi_band_sonification.
C12_BaseCarrierByCanonicalIndex ==
    (op = "multi" /\ args.er > 0 /\ ret.kind = "returned") =>
        \A k \in 1..Len(ret.value.mixed) :
            ret.value.mixed[k].base_freq
                = 100 * CanonicalIndex(ret.value.mixed[k].name)

\* what the code does satisfy: the base carrier is 100 Hz times the position
\* of the entry that built the waveform in the mapping's iteration order
BaseCarrierByIterationOrder ==
    (op = "multi" /\ ret.kind = "returned") =>
        \A k \in 1..Len(ret.value.mixed) :
            /\ ret.value.mixed[k].base_freq = 100 * ret.value.mixed[k].entry
            /\ args.bands[ret.value.mixed[k].entry].name
                  = ret.value.mixed[k].name

\* C13: the seizure envelope is 0 at index 0, 0 at index len-1 and exactly 1
\* at the midpoint index len/2, for every buffer generate returns for the
\* Seizure state (256 Hz and 10 s among them).
C13_SeizureEnvelopeEndsAndMiddle ==
    (op = "generate" /\ args.state = "Seizure" /\ ret.kind = "returned") =>
        LET env == ret.value.amplitude_envelope
            n == ret.value.len
        IN  /\ Len(env) = n
            /\ env[1].num = 0
            /\ env[n].num = 0
            /\ env[(n \div 2) + 1].num = env[(n \div 2) + 1].den

\* a seizure buffer whose three segments fill the buffer exactly (no padding:
\* the last sample is the end of the termination ramp), and the 256 Hz, 10 s
\* buffer
C13_Witness ==
    /\ op = "generate" /\ args.state = "Seizure" /\ ret.kind = "returned"
    /\ ret.value.envelopeRaw = ret.value.len
    /\ args.rate = 256 /\ args.durTenths = DefaultDurTenths

\* the windows [t, t + width) of the onsets are pairwise disjoint
WindowsDisjoint(times, width) ==
    \A t1, t2 \in times : t1 # t2 => (t1 + width <= t2 \/ t2 + width <= t1)

\* C14: the five vertex pulses of an N1 buffer do not overlap: the 50-sample
\* windows of any two onsets are disjoint.
C14_VertexPulsesDisjoint ==
    (op = "generate" /\ args.state = "N1" /\ ret.kind = "returned") =>
        WindowsDisjoint(ret.value.vertex_wave_times, VertexWidth)

\* what the code does satisfy: the onsets are VertexCount distinct positions
\* whose windows lie inside the buffer
VertexOnsetsDistinctInBuffer ==
    (op = "generate" /\ args.state = "N1" /\ ret.kind = "returned") =>
        /\ Cardinality(ret.value.vertex_wave_times) = VertexCount
        /\ \A t \in ret.value.vertex_wave_times :
              0 <= t /\ t + VertexWidth <= ret.value.len

\* a returned N1 buffer whose draw has pairwise disjoint windows (the model
\* offers such draws too)
DisjointDrawReturned ==
    /\ op = "generate" /\ args.state = "N1" /\ ret.kind = "returned"
    /\ WindowsDisjoint(ret.value.vertex_wave_times, VertexWidth)

\* C15: no generator, analyzer or sonifier call touches a process-wide
\* variable: every call leaves the process-wide random generator as it found
\* it, so the draws of a call do not depend on the calls around it.
C15_NoSharedState ==
    [][(op = "idle" /\ op' # "idle") => rng' = rng]_vars

\* what the code does satisfy: the analyzer operations and the sonifier's
\* tone mapping leave the process-wide generator alone
AnalyzerAndToneLeaveGenerator ==
    [][op' \in {"bandpass", "decompose", "hjorth", "tone", "final_normalize",
                "buffers", "save_audio", "power_spectrum"}
          => rng' = rng]_vars

\* C16: the generator can be seeded per call: two generate calls with the
\* same (state, sampling_rate, duration) and the same seed return identical
\* buffers, whatever generate or sonification calls ran between them.  (The
\* random values of a call are fixed by the generator state at its first
\* draw.)
C16_SameSeedSameBuffer ==
    (/\ op = "generate" /\ ret.kind = "returned"
     /\ last.args = args
     /\ drawn.seed > 0
     /\ last.drawn.seed = drawn.seed) =>
        drawn = last.drawn

\* what the code does satisfy: two generate calls with the same inputs whose
\* first draws come directly after a seeding with the same seed return
\* identical buffers
SameBufferDirectlyAfterSeeding ==
    (/\ op = "generate" /\ ret.kind = "returned"
     /\ last.args = args
     /\ drawn.pos = 0 /\ last.drawn.pos = 0
     /\ last.drawn.seed = drawn.seed) =>
        drawn = last.drawn

\* C17: every analyzer operation (bandpass, decompose, power_spectrum,
\* hjorth) and every sonifier operation (tone mapping, multi-band synthesis)
\* leaves its input buffers unwritten, and every buffer it returns is a new
\* array, not one of the inputs.
C17_InputsUnchangedResultsNew ==
    op = "buffers" =>
        /\ ret.value.written \cap ret.value.inputs = {}
        /\ ret.value.returned \cap ret.value.inputs = {}

\* the multi-band synthesis, which does write an array in place (its own
\* accumulation buffer) while reading the caller's band signals
C17_Witness ==
    /\ op = "buffers"
    /\ args.operation = "multi"
    /\ ret.value.written # {}
    /\ ret.value.inputs # {}

\* round(sample * 32767) clipped to the int16 range
RoundedAndClipped(sample) ==
    LET r == Round(sample.num * PcmScale, sample.den)
    IN  IF r > Int16Max THEN Int16Max
        ELSE IF r < Int16Min THEN Int16Min ELSE r

\* C18: the 16-bit value written for each audio sample is
\* round(sample * 32767) clipped to [-32768, 32767], for samples inside and
\* outside [-1, 1].
C18_PcmRoundedAndClipped ==
    op = "save_audio" =>
        \A i \in 1..Len(args.audio_data) :
            ret.value.pcm[i] = RoundedAndClipped(args.audio_data[i])

\* what save_audio does satisfy: a sample in [-1, 1] is written as
\* sample * 32767 truncated toward zero
PcmTruncatedInRange ==
    op = "save_audio" =>
        \A i \in 1..Len(args.audio_data) :
            Abs(args.audio_data[i].num) <= args.audio_data[i].den =>
                ret.value.pcm[i] = Trunc(args.audio_data[i].num * PcmScale,
                                         args.audio_data[i].den)

\* the frequencies start at 0, step by 1 Hz and end at floor(rate/2), in
\* floor(rate/2) + 1 bins, with as many power values
OneHertzBinsToNyquist(v, rate) ==
    /\ Len(v.freqs) = Floor(rate, 2) + 1
    /\ v.psdLen = Len(v.freqs)
    /\ v.freqs[1].num = 0
    /\ \A i \in 1..(Len(v.freqs) - 1) :
          v.freqs[i + 1].num - v.freqs[i].num = v.freqs[i].den
    /\ v.freqs[Len(v.freqs)].num = Floor(rate, 2) * v.freqs[Len(v.freqs)].den

\* C19: power_spectrum returns two sequences of equal length whose
\* frequencies are strictly increasing, start at 0, step by 1 Hz and end at
\* Nyquist (floor(sampling_rate/2) + 1 bins), for every input signal,
\* signals shorter than one second and odd sampling rates included.
C19_SpectrumOneHertzBins ==
    (op = "power_spectrum" /\ args.rate > 0) =>
        /\ ret.kind = "returned"
        /\ OneHertzBinsToNyquist(ret.value, args.rate)

\* what the code does satisfy: the bins of C19 for every signal of at least
\* one second (sampling_rate samples), odd sampling rates included
SpectrumOneHertzFromOneSecond ==
    (op = "power_spectrum" /\ args.rate > 0 /\ args.len >= args.rate) =>
        /\ ret.kind = "returned"
        /\ OneHertzBinsToNyquist(ret.value, args.rate)

\* a spectrum of a signal of at least one second at an odd sampling rate
OddRateSpectrumReturned ==
    /\ op = "power_spectrum" /\ ret.kind = "returned"
    /\ args.rate % 2 = 1 /\ args.len >= args.rate

\* C20: after any sequence of set and load_from_file calls on any
\* Configuration instance, reset_to_defaults() makes
\* get_config().get(section, key) return the original default value for
\* every section and key of the default configuration.
C20_ResetRestoresDefaults ==
    op = "reset_to_defaults" =>
        \A section \in Sections, key \in Keys :
            get(DEFAULT_CONFIG, DefaultHeap, section, key).kind = "returned"
                => get(tops["config"], heap, section, key)
                       = get(DEFAULT_CONFIG, DefaultHeap, section, key)

\* what reset_to_defaults does satisfy: the module-level instance has the
\* default sections again, each referring to its module-level dictionary
ResetRestoresSections ==
    op = "reset_to_defaults" => tops["config"] = DEFAULT_CONFIG

\* C21: saving a configuration with save_to_file and loading that file with
\* load_from_file into a fresh Configuration returns True from both calls
\* and yields a configuration equal to the saved one, for the default
\* configuration and after any sequence of set calls.
C21_SaveLoadRoundTrip ==
    /\ (op = "save_to_file" /\ args.writable) => ret = Returned(TRUE)
    /\ (op = "load_fresh" /\ disk # NoFile) =>
          /\ ret = Returned(TRUE)
          /\ Deep(DictVal(tops["mine"]), heap) = disk.saved

\* what the code does satisfy: a saved configuration that holds no tuple is
\* loaded (True) into the fresh Configuration
LoadsWhenNoTupleSaved ==
    (op = "load_fresh" /\ disk # NoFile /\ ~HasPythonTag(disk.doc)) =>
        ret = Returned(TRUE)

\* what the code does satisfy: save_to_file returns True whenever the path
\* can be written, tuples or not
SaveReturnsTrue ==
    (op = "save_to_file" /\ args.writable) => ret = Returned(TRUE)

\* a Seizure buffer was generated
SeizureReturned ==
    op = "generate" /\ args.state = "Seizure" /\ ret.kind = "returned"

\* center and half-width of spike i as the loop computes them
SpikeCenter(i, rate) == Trunc(i * rate, SpikeFreq)
SpikeHalfWidth(rate) == Floor(rate, 20)

\* C22: in the Seizure generator, for each spike index i in
\* 0..int(duration*3)-1 with half-width w = sampling_rate//20 > 0, a spike
\* is added if and only if its window [center-w, center+w) lies entirely
\* inside [0, len); every spike added writes only indices inside the buffer.
C22_SpikePlacedIffWindowInside ==
    (SeizureReturned /\ SpikeHalfWidth(args.rate) > 0) =>
        /\ \A i \in 0..(Trunc(args.durTenths * SpikeFreq, 10) - 1) :
              i \in ret.value.spikes <=>
                  /\ 0 <= SpikeCenter(i, args.rate) - SpikeHalfWidth(args.rate)
                  /\ SpikeCenter(i, args.rate) + SpikeHalfWidth(args.rate)
                        <= ret.value.len
        /\ \A win \in ret.value.windows :
              0 <= win[1] /\ win[1] < win[2] /\ win[2] <= ret.value.len

\* a Seizure buffer with a spike that was skipped and a spike that was added
C22_Witness ==
    /\ SeizureReturned
    /\ SpikeHalfWidth(args.rate) > 0
    /\ ret.value.spikes # {}
    /\ \E i \in 0..(Trunc(args.durTenths * SpikeFreq, 10) - 1) :
          i \notin ret.value.spikes

\* C23: for every outcome of the random placement, every N1 pulse window
\* [t, t+50) and every REM sawtooth window [t, t+100) lies entirely inside
\* the buffer, the 5 N1 onsets are pairwise distinct and the 8 REM onsets
\* are pairwise distinct.
C23_PlacementInsideAndDistinct ==
    /\ (op = "generate" /\ args.state = "N1" /\ ret.kind = "returned") =>
          /\ Cardinality(ret.value.vertex_wave_times) = VertexCount
          /\ \A t \in ret.value.vertex_wave_times :
                0 <= t /\ t + VertexWidth <= ret.value.len
    /\ (op = "generate" /\ args.state = "REM" /\ ret.kind = "returned") =>
          /\ Cardinality(ret.value.sawtooth_times) = SawtoothCount
          /\ \A t \in ret.value.sawtooth_times :
                0 <= t /\ t + SawtoothWidth <= ret.value.len

\* a REM buffer whose last sawtooth window ends one sample before the end of
\* the buffer (the largest onset np.random.choice can return)
C23_Witness ==
    /\ op = "generate" /\ args.state = "REM" /\ ret.kind = "returned"
    /\ ret.value.len - SawtoothWidth - 1 \in ret.value.sawtooth_times

\* the paths of settings: a section, a key of a section, a key of a nested
\* dictionary
ConfigPaths ==
    {<<sec>> : sec \in Sections}
    \cup {<<sec, k>> : sec \in Sections, k \in Keys}
    \cup {<<sec, k1, k2>> : sec \in Sections, k1 \in Keys, k2 \in Keys}

\* whether a loaded document (a mapping) mentions the setting at a path: it
\* gives the setting a value, or gives a value that is not a mapping to
\* something the setting is nested in
RECURSIVE Mentions(_, _)
Mentions(mapping, path) ==
    LET value == mapping[Head(path)]
    IN  IF value = Absent THEN FALSE
        ELSE IF Tail(path) = <<>> \/ ~IsOwnedDict(value) THEN TRUE
        ELSE Mentions(value.dict, Tail(path))

\* whether a loaded document contains the setting at a path itself
RECURSIVE Contains(_, _)
Contains(mapping, path) ==
    LET value == mapping[Head(path)]
    IN  IF value = Absent THEN FALSE
        ELSE IF Tail(path) = <<>> THEN TRUE
        ELSE IF ~IsOwnedDict(value) THEN FALSE
        ELSE Contains(value.dict, Tail(path))

DataStages == {"tone", "bands", "multi", "psd", "hjorth"}

\* C25: in the app, after any sequence of slider changes and button presses,
\* whenever the EEG data stored in the session is analysed or sonified, the
\* processor and the sonifier use the sampling rate the data was generated
\* with, and tone mapping uses the duration it was generated with.
C25_StagesUseGenerationParameters ==
    (op = "rerun" /\ session.stages \cap DataStages # {}) =>
        /\ args.sampling_rate = session.generated_with.sampling_rate
        /\ "tone" \in session.stages =>
              args.duration = session.generated_with.duration

\* the run that generates the data analyses it with the parameters it was
\* generated with
RunThatGeneratesIsAligned ==
    (op = "rerun" /\ "generate" \in session.stages
        /\ session.stages \cap DataStages # {}) =>
        /\ args.sampling_rate = session.generated_with.sampling_rate
        /\ args.duration = session.generated_with.duration

\* a Seizure call with an integer duration of at least one second
SeizureWholeSeconds ==
    /\ op = "generate"
    /\ args.state = "Seizure"
    /\ args.durTenths >= 10
    /\ args.durTenths % 10 = 0

\* every spike but spike 0 is placed, and the windows of the placed spikes
\* are pairwise disjoint
AllButFirstSpikePlaced ==
    /\ ret.kind = "returned"
    /\ ret.value.spikes = 1..(Trunc(args.durTenths * SpikeFreq, 10) - 1)
    /\ Cardinality(ret.value.spikes) = (args.durTenths \div 10) * SpikeFreq - 1
    /\ Cardinality(ret.value.windows) = Cardinality(ret.value.spikes)
    /\ \A v \in ret.value.windows, w \in ret.value.windows :
          v # w => (v[2] <= w[1] \/ w[2] <= v[1])

\* C26 as stated: in the Seizure generator with integer sampling_rate >= 20
\* and integer duration >= 1, exactly duration*3 - 1 spikes are placed: spike
\* 0 is skipped, no other spike is skipped, and the windows of any two
\* placed spikes are disjoint.
C26_SpikesPlacedFromRate20 ==
    (SeizureWholeSeconds /\ args.rate >= 20) => AllButFirstSpikePlaced

\* C26, amended: the same for every integer sampling_rate above 60 Hz, where
\* the 0.5-30 Hz base noise lies below the Nyquist frequency (edges in
\* half-Hz: 60 < rate) and the generator returns.
C26_SpikesPlacedAboveNyquist ==
    (SeizureWholeSeconds /\ args.rate > StateBands("Seizure")[1][2]) =>
        AllButFirstSpikePlaced

\* a ten-second Seizure buffer with its 29 spikes
C26_Witness ==
    /\ SeizureWholeSeconds
    /\ args.rate > StateBands("Seizure")[1][2]
    /\ args.durTenths = DefaultDurTenths
    /\ ret.kind = "returned"
    /\ Cardinality(ret.value.spikes) = 29
    /\ 0 \notin ret.value.spikes

\* C27: in the Seizure generator the three concatenated envelope segments
\* have total length floor(n/5) + floor(3n/5) + floor(n/5) <= n, so the
\* truncation branch is never taken; the shortfall is at most 2 samples and
\* is filled with zeros at the end of the envelope, which has exactly n
\* samples.
C27_EnvelopePaddedToLength ==
    SeizureReturned =>
        LET n == ret.value.len
            raw == ret.value.envelopeRaw
            env == ret.value.amplitude_envelope
        IN  /\ raw = (n \div 5) + ((3 * n) \div 5) + (n \div 5)
            /\ raw <= n
            /\ n - raw <= 2
            /\ Len(env) = n
            /\ \A i \in (raw + 1)..n : env[i].num = 0
            /\ \A i \in 1..(n \div 5) :
                  /\ env[i].num * ((n \div 5) - 1) = (i - 1) * env[i].den
                  /\ env[raw + 1 - i] = env[i]

\* a Seizure buffer whose envelope is two samples short and padded
C27_Witness ==
    /\ SeizureReturned
    /\ ret.value.len - ret.value.envelopeRaw = 2
    /\ Len(ret.value.amplitude_envelope) = ret.value.len
    /\ ret.value.amplitude_envelope[ret.value.len].num = 0

\* sample i of the saved buffer times the volume times 32767, truncated
ScaledSample(i) ==
    Trunc(args.audio.samples[i].num * args.volume * PcmScale,
          args.audio.samples[i].den * 100)

\* C28: for every buffer returned by tone_mapping or multiband_synthesis on
\* non-degenerate input (no NaN) and every volume in [0, 1], each value
\* sample * volume * 32767 converted by save_audio lies within the int16
\* range, so the conversion never overflows or wraps: the value written is
\* the truncated product.
C28_VolumeScaledPcmInRange ==
    (op = "sonify_and_save" /\ ~args.audio.nan) =>
        \A i \in 1..Len(args.audio.samples) :
            /\ Int16Min <= ScaledSample(i)
            /\ ScaledSample(i) <= Int16Max
            /\ ret.value.pcm[i] = ScaledSample(i)

\* a multi-band buffer saved at full volume: its peak is written as
\* int(0.9 * 32767)
C28_Witness ==
    /\ op = "sonify_and_save"
    /\ ~args.audio.nan
    /\ args.volume = 100
    /\ \E i \in 1..Len(args.audio.samples) :
          /\ ret.value.pcm[i] = Trunc(9 * PcmScale, 10)
          /\ 10 * args.audio.samples[i].num = 9 * args.audio.samples[i].den

\* the entries of a band mapping whose name is one of the five bands
KnownEntries(bands) == {k \in 1..Len(bands) : bands[k].name \in KnownBands}

\* C29: in multi_band_sonification the mixed buffer before the final
\* normalization is the sum of exactly one waveform per entry of the band
\* mapping, each computed from that entry's own signal; an entry whose name
\* is not one of delta, theta, alpha, beta, gamma contributes nothing (it
\* neither re-adds a previous band's waveform nor aborts the call).
C29_OneWaveformPerKnownEntry ==
    (op = "multi" /\ \A k \in 1..Len(args.bands) :
                        Len(args.bands[k].signal) > 0) =>
        /\ ret.kind = "returned"
        /\ Len(ret.value.mixed) = Cardinality(KnownEntries(args.bands))
        /\ {ret.value.mixed[j].entry : j \in 1..Len(ret.value.mixed)}
              = KnownEntries(args.bands)
        /\ \A j \in 1..Len(ret.value.mixed) :
              ret.value.mixed[j].name
                  = args.bands[ret.value.mixed[j].entry].name

\* what the mixing does satisfy: when every name is one of the five bands,
\* the call adds one waveform per entry, in order, made for that entry
OneWaveformPerEntryWhenAllKnown ==
    (op = "multi" /\ KnownEntries(args.bands) = 1..Len(args.bands)
        /\ \A k \in 1..Len(args.bands) : Len(args.bands[k].signal) > 0) =>
        /\ ret.kind = "returned"
        /\ Len(ret.value.mixed) = Len(args.bands)
        /\ \A j \in 1..Len(args.bands) :
              /\ ret.value.mixed[j].entry = j
              /\ ret.value.mixed[j].name = args.bands[j].name

=============================================================================
